---- MODULE Spec2Model ----
(***************************************************************************)
(* State-machine model of the measurement core of speed-test-go:           *)
(*   - server selection by latency probing (internal/server/selection.go), *)
(*   - the time-boxed download / upload testers (internal/transfer),       *)
(*   - the orchestrating Runner (internal/test/runner.go).                 *)
(* Durations are counted in abstract ticks; rates are exact rationals      *)
(* <<numerator, denominator>> standing for the float64 values of the code. *)
(***************************************************************************)
EXTENDS Integers, Sequences, FiniteSets, TLC

(* ------------------------------ bounds -------------------------------- *)

\* Largest candidate list handed to the selection.
MaxServers == 2

\* Latency samples range over 1..MaxLatency ticks.
MaxLatency == 2

\* Workers of one transfer test (numThreads, scaled down).
NumThreads == 2

\* HTTP requests one transfer test may issue before its deadline.
MaxRequests == 2

\* Body reads that deliver data during one download test.
MaxChunks == 2

\* A body read delivers 1..MaxChunkSize bytes (units of the 32 KB buffer).
MaxChunkSize == 2

\* testDuration in ticks: the test context is done from this tick on.
TestDuration == 2

\* Capacity of the progress channel RunSimple*Test creates (scaled down).
ProgressCap == 1

\* uploadSize, in the unit of the chunk sizes.
UploadSize == 1

\* Requests each transfer test of a whole Run may issue before its deadline.
RunnerRequests == 1

\* Data-carrying reads each transfer test of a whole Run may see.
RunnerChunks == 1

\* Pieces a server URL is made of, at most.
MaxURLPieces == 4

\* Calls made on the RateCalculator studied on its own.
MaxObs == 3

\* Ticks that may pass between two of those calls.
MaxElapsed == 2

\* The byte counts handed to Update are the multiples of 100 up to this many.
MaxHundreds == 3

\* Durations are counted in ticks; a millisecond is this many ticks.
TicksPerMs == 2

\* Bits of the mantissa of a float64 as modelled.
MantissaBits == 7

\* Samples handed to CalculateLatency on its own, and the longest of them in
\* ticks.
MaxSamples == 4

MaxSampleTicks == 3

\* Servers handed to SortServersByDistance on its own, and their largest
\* distance.
MaxSortLen == 4

MaxDistance == 3

\* Servers handed to CalculateServerDistances on its own, and the largest
\* coordinate of the user, in whole degrees.
MaxCoordServers == 2

MaxDegree == 1

(* ------------------------- program constants -------------------------- *)

\* upload.go 47-55: len(uploadURLs).
NumUploadURLs == 5

\* download.go 60-66: len(allURLs) = 2 speedtest URLs + 8 fallbacks.
NumDownloadURLs == 10

\* upload_test.go 519: NewEWMA(0.1), alpha = AlphaNum / AlphaDen.
AlphaNum == 1

AlphaDen == 10

\* selection.go: const maxConcurrentPings = 3 (capacity of the semaphore).
maxConcurrentPings == 3

\* selection.go: "for i := 0; i < 3; i++" in measureServerLatency.
PingsPerServer == 3

\* part_003 26: NewPingTest sets numPings to 5.
numPings == 5

\* part_003 39: sem := make(chan struct{}, 3) in PingTest.Run.
pingSemCap == 3

(* ------------------------------ values -------------------------------- *)

\* The nil *types.Server.
NilServer == [id |-> 0, dist |-> 0]

\* types.Server, reduced to the fields the core reads: ID and Distance.
\* Server i of the directory lies at distance (i + 1) \div 2, so that
\* servers 1 and 2 are equally far and server 3 is farther.
ServerOf(i) == [id |-> i, dist |-> (i + 1) \div 2]

\* The directory's candidates in ascending distance order, n of them.
ServerList(n) == [i \in 1..n |-> ServerOf(i)]

Latencies == 1..MaxLatency

VARIABLES
  ctxDone,          \* the caller's context is cancelled / past its deadline
  servers,          \* []*types.Server handed to SelectBestServerByPing
  numServersToTest, \* the numServers argument as the caller passed it
  selPc,            \* SelectBestServerByPing: "idle" | "enter" | "spawn" | "returned"
  numServers,       \* SelectBestServerByPing's local numServers (after the clamp)
  serversToTest,    \* servers[:numServers]
  spawned,          \* pingServers: goroutines launched so far by the range loop
  gpc,              \* probe goroutine i: "none" | "start" | "ping" | "done"
  gi,               \* measureServerLatency's loop counter i of goroutine i
  glats,            \* measureServerLatency's local latencies of goroutine i
  glatency,         \* pingServers line 97: the latency measureServerLatency returned
  results,          \* pingServers' results slice, in append order
  selRet,           \* what SelectBestServerByPing returned: [server, err]
  requested,        \* ids of the servers a latency GET was issued to
  now,              \* time.Now(), in ticks since the running transfer test began
  serverMode,       \* "any": requests may succeed; "all500": every answer is HTTP 500;
                    \* "unreachable": every request ends in a transport error
  xpc,              \* RunSimple*Test: "idle" | "select" | "drainOk" | "drainCtx" | "returned"
  xret,             \* RunSimple*Test's result and error: [Bandwidth, Bytes, err]
  runPc,            \* Run: "idle" | "running" | "closed" | "done"
  errChan,          \* errChan (capacity 1) as a sequence
  progress,         \* the progress channel's buffer
  closed,           \* the progress channel is closed
  rateCalc,         \* Run's RateCalculator
  totalBytes,       \* Run's totalBytes
  mu,               \* Run's mutex: 0 when free, else the worker holding it
  reqLeft,          \* requests the test may still issue before its deadline
  chunksLeft,       \* data-carrying reads the test may still see
  wpc,              \* worker: "idle"|"top"|"do"|"read"|"add"|"snap"|"send"|"exited"
  wurl,             \* download: urlIndex; upload: position in range uploadURLs
  wn,               \* bytes of the operation in hand (n of Read, or uploadSize)
  wlast,            \* download: the Read in hand also returned an error (EOF)
  wsnap,            \* the ProgressInfo the worker built: [Rate, BytesTotal]
  wload,            \* the value of totalBytes the worker read for its "+="
  handed,           \* bytes handed over so far: chunk sizes read, or uploadSize per 200
  rpc,              \* Runner.Run: the statement it has reached ("idle" when not called)
  serverID,         \* Runner.serverID; 0 stands for ""
  bestServer,       \* Run's bestServer
  selErr,           \* Run's selErr
  result,           \* Run's result struct as filled so far
  runRet,           \* what Run returned: [result, err]; result <<>> is nil
  trace,            \* the phases Run has started, in order
  fetched,          \* the list as FetchServerList returned it (<<>> before)
  phaseURL,         \* the serverURL each phase of Run was called with (0 before)
  serverURL,        \* a server's URL field, as a sequence of pieces
  rankProbe,        \* the URL measureServerLatency requests for it (<<>> before)
  finalProbe,       \* the URL PingTest.Run requests for it in Run (<<>> before)
  pingCall,         \* the latency call under study ("none" when there is none)
  pingPc,           \* where that call is: "idle"|"spawn"|"ran"|"enter"|"measure"|"returned"
  pingSpawned,      \* PingTest.Run: iterations of the spawning loop done
  ppc,              \* ping goroutine i: "none" | "start" | "do" | "done"
  latencies,        \* PingTest.Run's latencies slice
  pok,              \* latency GETs of that call that completed with HTTP 200 so far
  pingRet,          \* what RunPingTest / GetLatencyResult returned: [result, err]
  calc,             \* a RateCalculator driven by a single caller
  clock,            \* time.Now() for that calculator, in ticks
  calls,            \* calls made on it so far
  lastCall,         \* the last call made on it: [op, bytes, elapsed]
  rates,            \* the instantaneous rates it has computed since it was started
  estimates,        \* its Rate() after each of them
  allPositive,      \* every Update since the start had a positive delta and elapsed time
  folded,           \* the sum of the byte deltas it has turned into rates since the start
  nonDecreasing,    \* no Update since the start was given less than the call before it
  userLat,          \* CalculateServerDistances on its own: the argument userLat
  userLon           \* and the argument userLon, in whole degrees

selVars == <<servers, numServersToTest, selPc, numServers, serversToTest, spawned,
             gpc, gi, glats, glatency, results, selRet, requested>>

xferVars == <<now, serverMode, xpc, xret, runPc, errChan, progress, closed, rateCalc,
              totalBytes, mu, reqLeft, chunksLeft, wpc, wurl, wn, wlast, wsnap,
              wload, handed>>

runVars == <<rpc, serverID, bestServer, selErr, result, runRet, trace, fetched,
             phaseURL>>

urlVars == <<serverURL, rankProbe, finalProbe>>

pingVars == <<pingCall, pingPc, pingSpawned, ppc, latencies, pok, pingRet>>

rateVars == <<calc, clock, calls, lastCall, rates, estimates, allPositive, folded,
              nonDecreasing>>

distVars == <<userLat, userLon>>

otherVars == <<urlVars, pingVars, rateVars, distVars>>

\* What the steps of PingTest.Run leave alone.
notPing == <<ctxDone, selVars, xferVars, runVars, urlVars, rateVars, distVars>>

vars == <<ctxDone, selVars, xferVars, runVars, otherVars>>

(* ------------------- internal/server/selection.go --------------------- *)

Slots == 1..(MaxServers + 2)

\* selection.go 43-46: "if numServers <= 0 || numServers > len(servers)".
ClampNumServers_OffByOne(n, len) == IF n < 0 \/ n > len THEN len ELSE n

ClampNumServers(n, len) == IF n <= 0 \/ n > len THEN len ELSE n

\* Sum of a sequence of durations.
RECURSIVE SumSeq(_)
SumSeq(s) == IF s = <<>> THEN 0 ELSE Head(s) + SumSeq(Tail(s))

\* selection.go 149-159: 0 without a sample, else sum / len (integer division
\* of time.Duration).
AverageLatency(lats) == IF Len(lats) = 0 THEN 0 ELSE SumSeq(lats) \div Len(lats)

\* selection.go 60-66: best := latencies[0]; a later entry replaces it only
\* when strictly lower.
RECURSIVE LowestFrom(_, _)
LowestFrom(best, rest) ==
  IF rest = <<>> THEN best
  ELSE LowestFrom(IF Head(rest).latency < best.latency THEN Head(rest) ELSE best,
                  Tail(rest))

LowestLatency_Highest(lats) ==
  CHOOSE sl \in {lats[k] : k \in 1..Len(lats)} :
    \A k \in 1..Len(lats) : lats[k].latency <= sl.latency

LowestLatency(lats) == LowestFrom(lats[1], lats)

\* "sem <- struct{}{}" on a channel of capacity cap of which held slots are
\* taken: the send goes through only while a slot is free.
MayAcquire_Always(held, cap) == TRUE

MayAcquire(held, cap) == held < cap

\* The answers a latency GET may get: a sample (a latency), or 0 for an
\* error or a status other than 200, the only answer of a server that fails
\* every request.
ProbeSamples == IF serverMode = "all500" THEN {0} ELSE {0} \cup Latencies

\* Number of probe goroutines holding a slot of sem.
SemHeld == Cardinality({i \in Slots : gpc[i] \in {"start", "ping"}})

\* selection.go 38-49: the empty-list check, the clamp and the slice.
SelectEnter ==
  /\ selPc = "enter"
  /\ UNCHANGED <<xferVars, runVars, otherVars>>
  /\ IF Len(servers) = 0
       THEN /\ selRet' = [server |-> NilServer, err |-> "no servers available"]
            /\ selPc' = "returned"
            /\ UNCHANGED <<numServers, serversToTest>>
       ELSE /\ numServers' = ClampNumServers(numServers, Len(servers))
            /\ serversToTest' = SubSeq(servers, 1, numServers')
            /\ selPc' = "spawn"
            /\ UNCHANGED selRet
  /\ UNCHANGED <<ctxDone, servers, numServersToTest, spawned, gpc, gi, glats,
                 glatency, results, requested>>

\* selection.go 83-87: wg.Add(1); sem <- struct{}{}; go func(srv).
PingServersSpawn ==
  /\ selPc = "spawn"
  /\ UNCHANGED <<xferVars, runVars, otherVars>>
  /\ spawned < Len(serversToTest)
  /\ MayAcquire(SemHeld, maxConcurrentPings)
  /\ spawned' = spawned + 1
  /\ gpc' = [gpc EXCEPT ![spawned + 1] = "start"]
  /\ UNCHANGED <<ctxDone, servers, numServersToTest, selPc, numServers,
                 serversToTest, gi, glats, glatency, results, selRet, requested>>

\* selection.go 88-97: the goroutine's own ctx check, then the call of
\* measureServerLatency.
ProbeStart(i) ==
  /\ gpc[i] = "start"
  /\ UNCHANGED <<xferVars, runVars, otherVars>>
  /\ IF ctxDone
       THEN gpc' = [gpc EXCEPT ![i] = "done"]
       ELSE gpc' = [gpc EXCEPT ![i] = "ping"]
  /\ UNCHANGED <<ctxDone, servers, numServersToTest, selPc, numServers,
                 serversToTest, spawned, gi, glats, glatency, results, selRet,
                 requested>>

\* selection.go 120-147: one iteration of measureServerLatency's loop. A done
\* context makes the function return 0 whatever it has collected; otherwise
\* the GET either fails (error or status other than 200) or yields a sample.
ProbePing(i) ==
  /\ gpc[i] = "ping"
  /\ UNCHANGED <<xferVars, runVars, urlVars, rateVars, distVars, pingCall, pingPc,
                 pingSpawned, ppc, latencies, pingRet>>
  /\ gi[i] < PingsPerServer
  /\ IF ctxDone
       THEN /\ gpc' = [gpc EXCEPT ![i] = "done"]
            /\ glats' = [glats EXCEPT ![i] = <<>>]
            /\ gi' = [gi EXCEPT ![i] = 0]
            /\ UNCHANGED <<requested, pok>>
       ELSE /\ \E sample \in ProbeSamples :
                 /\ glats' = [glats EXCEPT ![i] =
                               IF sample > 0 THEN Append(@, sample) ELSE @]
                 /\ pok' = IF sample > 0 /\ pingCall = "GetLatencyResult"
                             THEN pok + 1 ELSE pok
            /\ gi' = [gi EXCEPT ![i] = @ + 1]
            /\ requested' = requested \cup {serversToTest[i].id}
            /\ UNCHANGED gpc
  /\ UNCHANGED <<ctxDone, servers, numServersToTest, selPc, numServers,
                 serversToTest, spawned, glatency, results, selRet>>

\* selection.go 149-159 and 97-105: the average is returned and, when
\* positive and returned to a goroutine of pingServers, appended to results
\* under mu; the deferred calls then free the semaphore slot and the wait
\* group.
ProbeFinish(i) ==
  /\ gpc[i] = "ping"
  /\ UNCHANGED <<xferVars, runVars, otherVars>>
  /\ gi[i] = PingsPerServer
  /\ LET latency == AverageLatency(glats[i]) IN
       /\ glatency' = [glatency EXCEPT ![i] = latency]
       /\ results' = IF latency > 0 /\ selPc = "spawn"
                       THEN Append(results, [server |-> serversToTest[i],
                                             latency |-> latency])
                       ELSE results
  /\ gpc' = [gpc EXCEPT ![i] = "done"]
  /\ glats' = [glats EXCEPT ![i] = <<>>]
  /\ gi' = [gi EXCEPT ![i] = 0]
  /\ UNCHANGED <<ctxDone, servers, numServersToTest, selPc, numServers,
                 serversToTest, spawned, selRet, requested>>

\* selection.go 54-68: what SelectBestServerByPing returns for the latencies
\* pingServers handed back.
SelectResult(srvs, lats) ==
  IF Len(lats) = 0
    THEN [server |-> srvs[1], err |-> "all ping attempts failed, using closest server"]
    ELSE [server |-> LowestLatency(lats).server, err |-> "nil"]

\* selection.go 109-110 and 52-68: wg.Wait() returns once every goroutine is
\* done; the best entry of results (or the closest server) is returned.
SelectReturn ==
  /\ selPc = "spawn"
  /\ UNCHANGED <<xferVars, runVars, otherVars>>
  /\ spawned = Len(serversToTest)
  /\ \A i \in Slots : gpc[i] \in {"none", "done"}
  /\ selRet' = SelectResult(servers, results)
  /\ selPc' = "returned"
  /\ UNCHANGED <<ctxDone, servers, numServersToTest, numServers, serversToTest,
                 spawned, gpc, gi, glats, glatency, results, requested>>

(* ---------------- internal/transfer: the rate estimator ---------------- *)

RECURSIVE Gcd(_, _)
Gcd(a, b) == IF b = 0 THEN a ELSE Gcd(b, a % b)

\* The rational n / d (d > 0, n >= 0) in lowest terms.
Rat(n, d) == IF n = 0 THEN <<0, 1>> ELSE <<n \div Gcd(n, d), d \div Gcd(n, d)>>

\* int64(f) for a non-negative float64 f.
Int64(r) == r[1] \div r[2]

\* NewEWMA: value 0, not initialized.
NewEWMA == [value |-> Rat(0, 1), initialized |-> FALSE]

\* upload_test.go 497: alpha*newValue + (1-alpha)*value.
Blend_AddsWeighted(value, newValue) ==
  Rat(AlphaNum * newValue[1] * value[2] + AlphaDen * value[1] * newValue[2],
      AlphaDen * newValue[2] * value[2])

Blend(value, newValue) ==
  Rat(AlphaNum * newValue[1] * value[2] + (AlphaDen - AlphaNum) * value[1] * newValue[2],
      AlphaDen * newValue[2] * value[2])

\* EWMA.Update: the first value is taken as it is, a later one blended with
\* the value held.
EWMAUpdate_AlwaysBlend(e, newValue) ==
  [value |-> Blend(e.value, newValue), initialized |-> TRUE]

EWMAUpdate(e, newValue) ==
  IF ~e.initialized
    THEN [value |-> newValue, initialized |-> TRUE]
    ELSE [e EXCEPT !.value = Blend(e.value, newValue)]

\* NewRateCalculator followed by Start at time t.
StartedRateCalculator(t) ==
  [ewma |-> NewEWMA, startTime |-> t, lastTime |-> t, startBytes |-> 0,
   lastBytes |-> 0, currentRate |-> Rat(0, 1)]

\* RateCalculator.Update(bytes) at time t.
Update_BytesAsIncrement(rc, bytes, t) ==
  LET elapsed == t - rc.lastTime
      moved == [rc EXCEPT !.lastBytes = bytes, !.lastTime = t]
      ewma == EWMAUpdate(rc.ewma, Rat(bytes, elapsed))
  IN IF elapsed = 0 THEN rc
     ELSE IF bytes <= 0 THEN moved
     ELSE [moved EXCEPT !.ewma = ewma, !.currentRate = ewma.value]

Update_ZeroElapsedMovesBaseline(rc, bytes, t) ==
  LET elapsed == t - rc.lastTime
      deltaBytes == bytes - rc.lastBytes
      moved == [rc EXCEPT !.lastBytes = bytes, !.lastTime = t]
      ewma == EWMAUpdate(rc.ewma, Rat(deltaBytes, elapsed))
  IN IF elapsed = 0 \/ deltaBytes <= 0 THEN moved
     ELSE [moved EXCEPT !.ewma = ewma, !.currentRate = ewma.value]

Update_FoldsZeroProgress(rc, bytes, t) ==
  LET elapsed == t - rc.lastTime
      deltaBytes == bytes - rc.lastBytes
      moved == [rc EXCEPT !.lastBytes = bytes, !.lastTime = t]
      ewma == EWMAUpdate(rc.ewma, Rat(IF deltaBytes > 0 THEN deltaBytes ELSE 0, elapsed))
  IN IF elapsed = 0 THEN rc
     ELSE [moved EXCEPT !.ewma = ewma, !.currentRate = ewma.value]

Update(rc, bytes, t) ==
  LET elapsed == t - rc.lastTime
      deltaBytes == bytes - rc.lastBytes
      moved == [rc EXCEPT !.lastBytes = bytes, !.lastTime = t]
      ewma == EWMAUpdate(rc.ewma, Rat(deltaBytes, elapsed))
  IN IF elapsed = 0 THEN rc
     ELSE IF deltaBytes <= 0 THEN moved
     ELSE [moved EXCEPT !.ewma = ewma, !.currentRate = ewma.value]

\* RateCalculator.SetBytes(bytes) at time t.
SetBytes(rc, bytes, t) == Update(rc, bytes, t)

\* RateCalculator.Rate().
Rate(rc) == rc.currentRate

(* --------------- internal/transfer: download and upload ---------------- *)

Kinds == {"download", "upload"}

Workers == 1..NumThreads

\* testCtx, derived from ctx with the timeout testDuration, is done.
TestCtxDone_CancelOnly(k) == ctxDone

TestCtxDone_DeadlineOnly(k) == now >= TestDuration

TestCtxDone(k) == ctxDone \/ now >= TestDuration

\* The statuses a request can end with: "err" is a transport error (always
\* the outcome once the request's context is done).
RequestOutcomes(k) ==
  IF TestCtxDone(k) THEN {"err"}
  ELSE IF serverMode = "all500" THEN {"500"}
  ELSE IF serverMode = "unreachable" THEN {"err"}
  ELSE {"err", "500", "200"}

\* download.go 105 / upload.go 96: resp.StatusCode == http.StatusOK.
StatusOK_AnyStatus(outcome) == outcome # "err"

StatusOK(outcome) == outcome = "200"

MayLock_NoExclusion(k) == TRUE

\* download.go 111 / upload.go 97: mu.Lock() goes through when no worker
\* holds the mutex.
MayLock(k) == mu[k] = 0

\* Where a worker goes once its operation is over: the download worker loops
\* (download.go 80-141); the upload worker leaves its loop after a successful
\* upload ("if success { break }", upload.go 114-121) and loops otherwise.
AfterOperation(k, success) == IF k = "upload" /\ success THEN "exited" ELSE "top"

\* A request may be issued: the test's budget allows it, or the context is
\* done and the request fails at once.
MayRequest(k) == reqLeft[k] > 0 \/ TestCtxDone(k)

Spend(left, k) == [left EXCEPT ![k] = IF @ > 0 /\ ~TestCtxDone(k) THEN @ - 1 ELSE @]

\* RunSimpleDownloadTest 166-183 / RunSimpleUploadTest 147-162, with the start
\* of Run in the goroutine: the channels are made, the rate calculator is
\* started and the workers are launched.
RunSimpleStart(k) ==
  /\ xpc[k] = "start"
  /\ xpc' = [xpc EXCEPT ![k] = "select"]
  /\ runPc' = [runPc EXCEPT ![k] = "running"]
  /\ now' = 0
  /\ rateCalc' = [rateCalc EXCEPT ![k] = StartedRateCalculator(0)]
  /\ totalBytes' = [totalBytes EXCEPT ![k] = 0]
  /\ handed' = [handed EXCEPT ![k] = 0]
  /\ progress' = [progress EXCEPT ![k] = <<>>]
  /\ errChan' = [errChan EXCEPT ![k] = <<>>]
  /\ closed' = [closed EXCEPT ![k] = FALSE]
  /\ wpc' = [wpc EXCEPT ![k] = [w \in Workers |-> "top"]]
  /\ UNCHANGED <<wload, otherVars, runVars, ctxDone, selVars, serverMode, xret, mu, reqLeft, chunksLeft, wurl,
                 wn, wlast, wsnap>>

\* download.go 80-92: the check of testCtx at the top of the loop, then the
\* choice of the next URL.
DownloadTop(w) ==
  /\ wpc["download"][w] = "top"
  /\ IF TestCtxDone("download")
       THEN /\ wpc' = [wpc EXCEPT !["download"][w] = "exited"]
            /\ wurl' = [wurl EXCEPT !["download"][w] = 0]
       ELSE /\ wpc' = [wpc EXCEPT !["download"][w] = "do"]
            /\ wurl' = [wurl EXCEPT !["download"][w] =
                          IF @ >= NumDownloadURLs THEN 1 ELSE @ + 1]
  /\ UNCHANGED <<wload, handed, otherVars, runVars, ctxDone, selVars, now, serverMode, xpc, xret, runPc, errChan,
                 progress, closed, rateCalc, totalBytes, mu, reqLeft, chunksLeft,
                 wn, wlast, wsnap>>

\* download.go 94-105 and 140: the GET. An error or a status other than 200
\* sends the worker back to the top of its loop.
DownloadDo(w) ==
  /\ wpc["download"][w] = "do"
  /\ MayRequest("download")
  /\ \E outcome \in RequestOutcomes("download") :
       wpc' = [wpc EXCEPT !["download"][w] =
                 IF StatusOK(outcome) THEN "read" ELSE AfterOperation("download", FALSE)]
  /\ reqLeft' = Spend(reqLeft, "download")
  /\ UNCHANGED <<wload, handed, otherVars, runVars, ctxDone, selVars, now, serverMode, xpc, xret, runPc, errChan,
                 progress, closed, rateCalc, totalBytes, mu, chunksLeft, wurl, wn,
                 wlast, wsnap>>

\* download.go 108-113 and 130-140: one resp.Body.Read, which returns n bytes
\* and possibly an error (EOF; always an error once the context is done);
\* for n > 0 the worker then takes the mutex, calls rateCalc.SetBytes(n) and
\* reads totalBytes for its "totalBytes += int64(n)".
DownloadRead(w) ==
  /\ wpc["download"][w] = "read"
  /\ \E n \in 0..MaxChunkSize, err \in BOOLEAN :
       /\ n = 0 => err
       /\ TestCtxDone("download") => err
       /\ IF n > 0
            THEN /\ chunksLeft["download"] > 0
                 /\ MayLock("download")
                 /\ mu' = [mu EXCEPT !["download"] = w]
                 /\ rateCalc' = [rateCalc EXCEPT !["download"] = SetBytes(@, n, now)]
                 /\ wload' = [wload EXCEPT !["download"][w] = totalBytes["download"]]
                 /\ handed' = [handed EXCEPT !["download"] = @ + n]
                 /\ wpc' = [wpc EXCEPT !["download"][w] = "add"]
                 /\ wn' = [wn EXCEPT !["download"][w] = n]
                 /\ wlast' = [wlast EXCEPT !["download"][w] = err]
                 /\ chunksLeft' = [chunksLeft EXCEPT !["download"] = @ - 1]
            ELSE /\ wpc' = [wpc EXCEPT !["download"][w] =
                              AfterOperation("download", FALSE)]
                 /\ UNCHANGED <<wn, wlast, chunksLeft, mu, rateCalc, wload, handed>>
  /\ UNCHANGED <<otherVars, runVars, ctxDone, selVars, now, serverMode, xpc, xret, runPc, errChan,
                 progress, closed, totalBytes, reqLeft, wurl, wsnap>>

\* upload.go 71-79: the check of testCtx at the top of the loop, then the
\* start of the range over uploadURLs.
UploadTop(w) ==
  /\ wpc["upload"][w] = "top"
  /\ IF TestCtxDone("upload")
       THEN /\ wpc' = [wpc EXCEPT !["upload"][w] = "exited"]
            /\ wurl' = [wurl EXCEPT !["upload"][w] = 0]
       ELSE /\ wpc' = [wpc EXCEPT !["upload"][w] = "do"]
            /\ wurl' = [wurl EXCEPT !["upload"][w] = 1]
  /\ UNCHANGED <<wload, handed, otherVars, runVars, ctxDone, selVars, now, serverMode, xpc, xret, runPc, errChan,
                 progress, closed, rateCalc, totalBytes, mu, reqLeft, chunksLeft,
                 wn, wlast, wsnap>>

\* upload.go 79-98 and 117-121: the POST to uploadURLs[wurl]. After an error
\* or a status other than 200 the next URL is tried; when the list is used
\* up without a success the worker is back at the top of its loop. After a
\* 200 the worker takes the mutex, calls rateCalc.SetBytes(uploadSize) and
\* reads totalBytes for its "totalBytes += ut.uploadSize".
UploadDo(w) ==
  /\ wpc["upload"][w] = "do"
  /\ MayRequest("upload")
  /\ \E outcome \in RequestOutcomes("upload") :
       IF StatusOK(outcome)
         THEN /\ MayLock("upload")
              /\ mu' = [mu EXCEPT !["upload"] = w]
              /\ rateCalc' = [rateCalc EXCEPT !["upload"] = SetBytes(@, UploadSize, now)]
              /\ wload' = [wload EXCEPT !["upload"][w] = totalBytes["upload"]]
              /\ handed' = [handed EXCEPT !["upload"] = @ + UploadSize]
              /\ wpc' = [wpc EXCEPT !["upload"][w] = "add"]
              /\ wn' = [wn EXCEPT !["upload"][w] = UploadSize]
              /\ UNCHANGED wurl
         ELSE /\ IF wurl["upload"][w] < NumUploadURLs
                   THEN /\ wurl' = [wurl EXCEPT !["upload"][w] = @ + 1]
                        /\ UNCHANGED wpc
                   ELSE /\ wurl' = [wurl EXCEPT !["upload"][w] = 0]
                        /\ wpc' = [wpc EXCEPT !["upload"][w] =
                                     AfterOperation("upload", FALSE)]
              /\ UNCHANGED <<wn, mu, rateCalc, wload, handed>>
  /\ reqLeft' = Spend(reqLeft, "upload")
  /\ UNCHANGED <<otherVars, runVars, ctxDone, selVars, now, serverMode, xpc, xret, runPc, errChan,
                 progress, closed, totalBytes, chunksLeft, wlast, wsnap>>

\* download.go 114-115 / upload.go 99-100: the store of "totalBytes += n",
\* which writes the value read plus n, and mu.Unlock().
WorkerAdd(k, w) ==
  /\ wpc[k][w] = "add"
  /\ totalBytes' = [totalBytes EXCEPT ![k] = wload[k][w] + wn[k][w]]
  /\ wload' = [wload EXCEPT ![k][w] = 0]
  /\ mu' = [mu EXCEPT ![k] = 0]
  /\ wpc' = [wpc EXCEPT ![k][w] = "snap"]
  /\ UNCHANGED <<handed, otherVars, runVars, ctxDone, selVars, now, serverMode, xpc, xret, runPc, errChan,
                 progress, closed, rateCalc, reqLeft, chunksLeft, wurl, wn, wlast,
                 wsnap>>

\* download.go 120-124 / upload.go 105-109: the ProgressInfo to send is built
\* from rateCalc.Rate() and totalBytes, read without the mutex.
WorkerSnapshot(k, w) ==
  /\ wpc[k][w] = "snap"
  /\ wsnap' = [wsnap EXCEPT ![k][w] =
                 [Rate |-> Rate(rateCalc[k]), BytesTotal |-> totalBytes[k]]]
  /\ wpc' = [wpc EXCEPT ![k][w] = "send"]
  /\ UNCHANGED <<wload, handed, otherVars, runVars, ctxDone, selVars, now, serverMode, xpc, xret, runPc, errChan,
                 progress, closed, rateCalc, totalBytes, mu, reqLeft, chunksLeft,
                 wurl, wn, wlast>>

\* Where the worker continues after the select on the progress channel: the
\* download worker reads on unless the Read in hand returned an error; the
\* upload worker has completed a successful operation.
AfterSend(k, w) ==
  IF k = "download"
    THEN IF wlast[k][w] THEN AfterOperation(k, TRUE) ELSE "read"
    ELSE AfterOperation(k, TRUE)

SendMayGiveUp_Never(k) == FALSE

\* The select's receive cases are ready: <-testCtx.Done() or <-ctx.Done().
SendMayGiveUp(k) == TestCtxDone(k) \/ ctxDone

\* download.go 119-127 / upload.go 104-112: the select that delivers the
\* snapshot when the channel has room, or gives up when a context is done.
WorkerSend(k, w) ==
  /\ wpc[k][w] = "send"
  /\ \/ /\ Len(progress[k]) < ProgressCap
        /\ progress' = [progress EXCEPT ![k] = Append(@, wsnap[k][w])]
     \/ /\ SendMayGiveUp(k)
        /\ UNCHANGED progress
  /\ wpc' = [wpc EXCEPT ![k][w] = AfterSend(k, w)]
  /\ wn' = [wn EXCEPT ![k][w] = 0]
  /\ wlast' = [wlast EXCEPT ![k][w] = FALSE]
  /\ wsnap' = [wsnap EXCEPT ![k][w] = [Rate |-> Rat(0, 1), BytesTotal |-> 0]]
  /\ wurl' = [wurl EXCEPT ![k][w] = IF AfterSend(k, w) = "exited" THEN 0 ELSE @]
  /\ UNCHANGED <<wload, handed, otherVars, runVars, ctxDone, selVars, now, serverMode, xpc, xret, runPc, errChan,
                 closed, rateCalc, totalBytes, mu, reqLeft, chunksLeft>>

WaitReturns_FirstWorkerDone(k) == \E w \in Workers : wpc[k][w] = "exited"

\* download.go 74-76 and 145 / upload.go 65-67 and 126: wg.Wait() returns
\* when every worker has run its deferred wg.Done().
WaitReturns(k) == \A w \in Workers : wpc[k][w] = "exited"

\* download.go 145-150 / upload.go 126-131: wg.Wait() returns when every
\* worker has exited; the progress channel is closed.
RunClose(k) ==
  /\ runPc[k] = "running"
  /\ WaitReturns(k)
  /\ closed' = [closed EXCEPT ![k] = TRUE]
  /\ runPc' = [runPc EXCEPT ![k] = "closed"]
  /\ UNCHANGED <<wload, handed, otherVars, runVars, ctxDone, selVars, now, serverMode, xpc, xret, errChan, progress,
                 rateCalc, totalBytes, mu, reqLeft, chunksLeft, wpc, wurl, wn, wlast,
                 wsnap>>

\* download.go 152 and 182 / upload.go 133 and 161: Run returns nil, which
\* the goroutine puts on errChan.
RunReturn(k) ==
  /\ runPc[k] = "closed"
  /\ Len(errChan[k]) < 1
  /\ errChan' = [errChan EXCEPT ![k] = Append(@, "nil")]
  /\ runPc' = [runPc EXCEPT ![k] = "done"]
  /\ UNCHANGED <<wload, handed, otherVars, runVars, ctxDone, selVars, now, serverMode, xpc, xret, progress, closed,
                 rateCalc, totalBytes, mu, reqLeft, chunksLeft, wpc, wurl, wn, wlast,
                 wsnap>>

\* download.go 186-188 and 197-198 / upload.go 165-167 and 176-177: the
\* select of RunSimple*Test takes Run's result or the done context.
RunSimpleSelect(k) ==
  /\ xpc[k] = "select"
  /\ \/ /\ errChan[k] # <<>>
        /\ errChan' = [errChan EXCEPT ![k] = Tail(@)]
        /\ xret' = [xret EXCEPT ![k].err = Head(errChan[k])]
        /\ xpc' = [xpc EXCEPT ![k] = "drainOk"]
     \/ /\ ctxDone
        /\ xpc' = [xpc EXCEPT ![k] = "drainCtx"]
        /\ UNCHANGED <<errChan, xret>>
  /\ UNCHANGED <<wload, handed, otherVars, runVars, ctxDone, selVars, now, serverMode, runPc, progress, closed,
                 rateCalc, totalBytes, mu, reqLeft, chunksLeft, wpc, wurl, wn, wlast,
                 wsnap>>

\* download.go 190-193 and 199-202 / upload.go 169-172 and 178-181: one
\* iteration of "for p := range progress".
RunSimpleDrain(k) ==
  /\ xpc[k] \in {"drainOk", "drainCtx"}
  /\ progress[k] # <<>>
  /\ xret' = [xret EXCEPT ![k].Bytes = Head(progress[k]).BytesTotal,
                          ![k].Bandwidth = Int64(Head(progress[k]).Rate)]
  /\ progress' = [progress EXCEPT ![k] = Tail(@)]
  /\ UNCHANGED <<wload, handed, otherVars, runVars, ctxDone, selVars, now, serverMode, xpc, runPc, errChan, closed,
                 rateCalc, totalBytes, mu, reqLeft, chunksLeft, wpc, wurl, wn, wlast,
                 wsnap>>

\* download.go 194-206 / upload.go 173-185: the range loop ends on the closed
\* and empty channel; the result is returned, with ctx.Err() in the
\* ctx.Done() case.
RunSimpleReturn(k) ==
  /\ xpc[k] \in {"drainOk", "drainCtx"}
  /\ progress[k] = <<>>
  /\ closed[k]
  /\ xret' = [xret EXCEPT ![k].err = IF xpc[k] = "drainCtx" THEN "ctx" ELSE @]
  /\ xpc' = [xpc EXCEPT ![k] = "returned"]
  /\ UNCHANGED <<wload, handed, otherVars, runVars, ctxDone, selVars, now, serverMode, runPc, errChan, progress, closed,
                 rateCalc, totalBytes, mu, reqLeft, chunksLeft, wpc, wurl, wn, wlast,
                 wsnap>>

\* Time passes while a transfer test runs (the clock of the model stops at
\* the test's deadline).
Tick ==
  /\ \E k \in Kinds : runPc[k] = "running"
  /\ now < TestDuration
  /\ now' = now + 1
  /\ UNCHANGED <<wload, handed, otherVars, runVars, ctxDone, selVars, serverMode, xpc, xret, runPc, errChan, progress,
                 closed, rateCalc, totalBytes, mu, reqLeft, chunksLeft, wpc, wurl, wn,
                 wlast, wsnap>>

TransferStep ==
  \/ \E k \in Kinds : RunSimpleStart(k)
  \/ \E w \in Workers : DownloadTop(w)
  \/ \E w \in Workers : DownloadDo(w)
  \/ \E w \in Workers : DownloadRead(w)
  \/ \E w \in Workers : UploadTop(w)
  \/ \E w \in Workers : UploadDo(w)
  \/ \E k \in Kinds, w \in Workers : WorkerAdd(k, w)
  \/ \E k \in Kinds, w \in Workers : WorkerSnapshot(k, w)
  \/ \E k \in Kinds, w \in Workers : WorkerSend(k, w)
  \/ \E k \in Kinds : RunClose(k)
  \/ \E k \in Kinds : RunReturn(k)
  \/ \E k \in Kinds : RunSimpleSelect(k)
  \/ \E k \in Kinds : RunSimpleDrain(k)
  \/ \E k \in Kinds : RunSimpleReturn(k)

\* No transfer test has been started; the tests may issue req requests and
\* see chunks data-carrying reads before their deadline.
TransferFresh(req, chunks) ==
  /\ now = 0
  /\ xpc = [k \in Kinds |-> "idle"]
  /\ xret = [k \in Kinds |-> [Bandwidth |-> 0, Bytes |-> 0, err |-> "nil"]]
  /\ runPc = [k \in Kinds |-> "idle"]
  /\ errChan = [k \in Kinds |-> <<>>]
  /\ progress = [k \in Kinds |-> <<>>]
  /\ closed = [k \in Kinds |-> FALSE]
  /\ rateCalc = [k \in Kinds |-> StartedRateCalculator(0)]
  /\ totalBytes = [k \in Kinds |-> 0]
  /\ mu = [k \in Kinds |-> 0]
  /\ reqLeft = [k \in Kinds |-> req]
  /\ chunksLeft = [k \in Kinds |-> chunks]
  /\ wpc = [k \in Kinds |-> [w \in Workers |-> "idle"]]
  /\ wurl = [k \in Kinds |-> [w \in Workers |-> 0]]
  /\ wn = [k \in Kinds |-> [w \in Workers |-> 0]]
  /\ wlast = [k \in Kinds |-> [w \in Workers |-> FALSE]]
  /\ wsnap = [k \in Kinds |-> [w \in Workers |-> [Rate |-> Rat(0, 1), BytesTotal |-> 0]]]
  /\ wload = [k \in Kinds |-> [w \in Workers |-> 0]]
  /\ handed = [k \in Kinds |-> 0]

TransferIdle == TransferFresh(MaxRequests, MaxChunks)

\* No selection is in progress.
SelectIdle ==
  /\ servers = <<>>
  /\ numServersToTest = 0
  /\ numServers = 0
  /\ selPc = "idle"
  /\ serversToTest = <<>>
  /\ spawned = 0
  /\ gpc = [i \in Slots |-> "none"]
  /\ gi = [i \in Slots |-> 0]
  /\ glats = [i \in Slots |-> <<>>]
  /\ glatency = [i \in Slots |-> 0]
  /\ results = <<>>
  /\ selRet = [server |-> NilServer, err |-> "nil"]
  /\ requested = {}

\* The phases of Run that are handed a server URL.
Phases == {"latency", "download", "upload"}

\* A transfer result that nothing was written to.
NilTransfer == [Bandwidth |-> 0, Bytes |-> 0]

\* part_003 176-178: the result struct Run starts from.
EmptyResult == [Ping |-> FALSE, Download |-> NilTransfer, Upload |-> NilTransfer,
                Server |-> 0]

\* Runner.Run has not been called.
RunnerIdle ==
  /\ rpc = "idle"
  /\ serverID = 0
  /\ bestServer = NilServer
  /\ selErr = "nil"
  /\ result = EmptyResult
  /\ runRet = [result |-> <<>>, err |-> "nil"]
  /\ trace = <<>>
  /\ fetched = <<>>
  /\ phaseURL = [p \in Phases |-> 0]

\* No URL has been worked on.
URLIdle ==
  /\ serverURL = <<>>
  /\ rankProbe = <<>>
  /\ finalProbe = <<>>

\* No latency call is under study.
PingIdle ==
  /\ pingCall = "none"
  /\ pingPc = "idle"
  /\ pingSpawned = 0
  /\ ppc = [i \in 1..numPings |-> "none"]
  /\ latencies = <<>>
  /\ pok = 0
  /\ pingRet = [result |-> <<>>, err |-> "nil"]

\* No separate RateCalculator is under study.
RateIdle ==
  /\ calc = StartedRateCalculator(0)
  /\ clock = 0
  /\ calls = 0
  /\ lastCall = [op |-> "Start", bytes |-> 0, elapsed |-> 0]
  /\ rates = <<>>
  /\ estimates = <<>>
  /\ allPositive = TRUE
  /\ folded = 0
  /\ nonDecreasing = TRUE

\* CalculateServerDistances is not under study on its own.
DistIdle ==
  /\ userLat = 0
  /\ userLon = 0

\* Nothing but the call under study is in progress.
OthersIdle == URLIdle /\ PingIdle /\ RateIdle /\ DistIdle

\* The caller's context is cancelled or its deadline passes.
Cancel ==
  /\ ~ctxDone
  /\ ctxDone' = TRUE
  /\ UNCHANGED <<selVars, xferVars, runVars, otherVars>>

SelectStep ==
  \/ SelectEnter
  \/ PingServersSpawn
  \/ \E i \in Slots : ProbeStart(i)
  \/ \E i \in Slots : ProbePing(i)
  \/ \E i \in Slots : ProbeFinish(i)
  \/ SelectReturn

\* A call SelectBestServerByPing(ctx, servers, numServers) on a
\* distance-sorted list of up to MaxServers candidates.
InitSelect ==
  /\ ctxDone = FALSE
  /\ \E n \in 0..MaxServers : servers = ServerList(n)
  /\ numServersToTest \in -1..(MaxServers + 1)
  /\ numServers = numServersToTest
  /\ selPc = "enter"
  /\ serversToTest = <<>>
  /\ spawned = 0
  /\ gpc = [i \in Slots |-> "none"]
  /\ gi = [i \in Slots |-> 0]
  /\ glats = [i \in Slots |-> <<>>]
  /\ glatency = [i \in Slots |-> 0]
  /\ results = <<>>
  /\ selRet = [server |-> NilServer, err |-> "nil"]
  /\ requested = {}
  /\ serverMode = "any"
  /\ TransferIdle
  /\ RunnerIdle
  /\ OthersIdle

NextSelect == SelectStep \/ Cancel

SpecSelect == InitSelect /\ [][NextSelect]_vars

\* A call RunSimpleDownloadTest(ctx, serverURL) or RunSimpleUploadTest(ctx,
\* serverURL), against a server that may answer or that answers every request
\* with HTTP 500.
InitTransfer ==
  /\ ctxDone = FALSE
  /\ SelectIdle
  /\ RunnerIdle
  /\ OthersIdle
  /\ serverMode \in {"any", "all500", "unreachable"}
  /\ now = 0
  /\ \E k \in Kinds : xpc = [j \in Kinds |-> IF j = k THEN "start" ELSE "idle"]
  /\ xret = [k \in Kinds |-> [Bandwidth |-> 0, Bytes |-> 0, err |-> "nil"]]
  /\ runPc = [k \in Kinds |-> "idle"]
  /\ errChan = [k \in Kinds |-> <<>>]
  /\ progress = [k \in Kinds |-> <<>>]
  /\ closed = [k \in Kinds |-> FALSE]
  /\ rateCalc = [k \in Kinds |-> StartedRateCalculator(0)]
  /\ totalBytes = [k \in Kinds |-> 0]
  /\ mu = [k \in Kinds |-> 0]
  /\ reqLeft = [k \in Kinds |-> MaxRequests]
  /\ chunksLeft = [k \in Kinds |-> MaxChunks]
  /\ wpc = [k \in Kinds |-> [w \in Workers |-> "idle"]]
  /\ wurl = [k \in Kinds |-> [w \in Workers |-> 0]]
  /\ wn = [k \in Kinds |-> [w \in Workers |-> 0]]
  /\ wlast = [k \in Kinds |-> [w \in Workers |-> FALSE]]
  /\ wsnap = [k \in Kinds |-> [w \in Workers |-> [Rate |-> Rat(0, 1), BytesTotal |-> 0]]]
  /\ wload = [k \in Kinds |-> [w \in Workers |-> 0]]
  /\ handed = [k \in Kinds |-> 0]

NextTransfer == TransferStep \/ Tick \/ Cancel

SpecTransfer == InitTransfer /\ [][NextTransfer]_vars

\* The goroutines of the program are scheduled fairly; time and the caller's
\* cancellation are not forced.
FairSpecTransfer == SpecTransfer /\ WF_vars(TransferStep)

\* The goroutines are scheduled fairly and time passes: the timer of
\* context.WithTimeout(ctx, testDuration) fires in the end.
TimedSpecTransfer == SpecTransfer /\ WF_vars(TransferStep) /\ WF_vars(Tick)

(* ----------------------- Runner.Run (part_003) ------------------------ *)

\* distance.go 48-58: the bubble sort, at outer index i and inner index j.
RECURSIVE Bubble_SwapsTies(_, _, _)
Bubble_SwapsTies(s, i, j) ==
  IF i >= Len(s) - 1 THEN s
  ELSE IF j >= Len(s) - i - 1 THEN Bubble_SwapsTies(s, i + 1, 0)
  ELSE Bubble_SwapsTies(IF s[j + 1].dist >= s[j + 2].dist
                          THEN [s EXCEPT ![j + 1] = s[j + 2], ![j + 2] = s[j + 1]]
                          ELSE s,
                        i, j + 1)

RECURSIVE Bubble(_, _, _)
Bubble(s, i, j) ==
  IF i >= Len(s) - 1 THEN s
  ELSE IF j >= Len(s) - i - 1 THEN Bubble(s, i + 1, 0)
  ELSE Bubble(IF s[j + 1].dist > s[j + 2].dist
                THEN [s EXCEPT ![j + 1] = s[j + 2], ![j + 2] = s[j + 1]]
                ELSE s,
              i, j + 1)

SortServersByDistance(s) == Bubble(s, 0, 0)

\* selection.go 26-33: the first server with the ID, or nil.
FindServerByID_Closest(srvs, id) == IF srvs = <<>> THEN NilServer ELSE srvs[1]

RECURSIVE FindServerByID(_, _)
FindServerByID(srvs, id) ==
  IF srvs = <<>> THEN NilServer
  ELSE IF Head(srvs).id = id THEN Head(srvs)
  ELSE FindServerByID(Tail(srvs), id)

\* The lists the directory may answer with, each server carrying the distance
\* CalculateServerDistances gives it: sorted ones and ones farthest first.
FetchedLists ==
  {ServerList(n) : n \in 0..MaxServers} \cup
  {[i \in 1..n |-> ServerOf(n + 2 - i)] : n \in 1..MaxServers}

\* The server IDs a caller may configure: none (""), one that may be listed
\* and one that never is.
ServerIDs == {0, 1, MaxServers + 2}

\* How a phase made of HTTP requests bound to ctx may end: it fails once ctx
\* is done, and may fail anyway.
CallOutcomes == IF ctxDone THEN {"err"} ELSE {"ok", "err"}

\* part_003 175-264: the statement Run goes to when a phase has succeeded.
NextPhase_UploadFirst(p) ==
  CASE p = "location" -> "fetch"
    [] p = "fetch"    -> "select"
    [] p = "select"   -> "latency"
    [] p = "latency"  -> "upload"
    [] p = "upload"   -> "download"
    [] p = "download" -> "assemble"

NextPhase(p) ==
  CASE p = "location" -> "fetch"
    [] p = "fetch"    -> "select"
    [] p = "select"   -> "latency"
    [] p = "latency"  -> "download"
    [] p = "download" -> "upload"
    [] p = "upload"   -> "assemble"

\* part_003 183, 193, 211, 227, 234, 245: "return nil, fmt.Errorf(...)".
ReturnError_Partial(res, msg) == [result |-> <<res>>, err |-> msg]

ReturnError(res, msg) == [result |-> <<>>, err |-> msg]

\* part_003 218: "bestServer = servers[0]".
FallbackServer_Farthest(srvs) == srvs[Len(srvs)]

FallbackServer(srvs) == srvs[1]

\* part_003 222: serverURL := server.GetServerBaseURL(bestServer), a URL
\* named here by the ID of the server it belongs to.
BaseURLOf_Closest(best) == 1

BaseURLOf(best) == best.id

\* part_003 180-188: step 1, DetectUserLocation.
RunDetectLocation ==
  /\ rpc = "location"
  /\ trace' = Append(trace, "location")
  /\ \E o \in CallOutcomes :
       IF o = "ok"
         THEN /\ rpc' = NextPhase("location")
              /\ UNCHANGED runRet
         ELSE /\ rpc' = "returned"
              /\ runRet' = ReturnError(result, "failed to detect location")
  /\ UNCHANGED <<otherVars, ctxDone, selVars, xferVars, serverID, bestServer, selErr, result,
                 fetched, phaseURL>>

\* part_003 190-201: step 2, FetchServerList, CalculateServerDistances and
\* SortServersByDistance.
RunFetchServers ==
  /\ rpc = "fetch"
  /\ trace' = Append(trace, "fetch")
  /\ \E o \in CallOutcomes :
       IF o = "ok"
         THEN /\ \E list \in FetchedLists :
                   /\ fetched' = list
                   /\ servers' = SortServersByDistance(list)
              /\ rpc' = NextPhase("fetch")
              /\ UNCHANGED runRet
         ELSE /\ rpc' = "returned"
              /\ runRet' = ReturnError(result, "failed to fetch servers")
              /\ UNCHANGED <<servers, fetched>>
  /\ UNCHANGED <<otherVars, ctxDone, numServersToTest, selPc, numServers, serversToTest, spawned,
                 gpc, gi, glats, glatency, results, selRet, requested, xferVars,
                 serverID, bestServer, selErr, result, phaseURL>>

\* part_003 203-215: step 3 with a configured server ID (FindServerByID), or
\* the call of SelectBestServerByPing(ctx, servers, r.numServersToTest).
RunSelectServer ==
  /\ rpc = "select"
  /\ trace' = Append(trace, "selection")
  /\ IF serverID # 0
       THEN /\ IF FindServerByID(servers, serverID) = NilServer
                 THEN /\ rpc' = "returned"
                      /\ runRet' = ReturnError(result, "server not found")
                      /\ UNCHANGED bestServer
                 ELSE /\ rpc' = NextPhase("select")
                      /\ bestServer' = FindServerByID(servers, serverID)
                      /\ UNCHANGED runRet
            /\ UNCHANGED <<selPc, numServers>>
       ELSE /\ selPc' = "enter"
            /\ numServers' = numServersToTest
            /\ rpc' = "selecting"
            /\ UNCHANGED <<bestServer, runRet>>
  /\ UNCHANGED <<otherVars, ctxDone, servers, numServersToTest, serversToTest, spawned, gpc, gi,
                 glats, glatency, results, selRet, requested, xferVars, serverID,
                 selErr, result, fetched, phaseURL>>

\* part_003 215-219: SelectBestServerByPing has returned; on an error Run
\* falls back to servers[0], which panics on an empty list. The locals of the
\* returned call are gone.
RunAfterSelect ==
  /\ rpc = "selecting"
  /\ selPc = "returned"
  /\ selErr' = selRet.err
  /\ IF selRet.err # "nil"
       THEN IF Len(servers) = 0
              THEN /\ rpc' = "panicked"
                   /\ UNCHANGED bestServer
              ELSE /\ rpc' = NextPhase("select")
                   /\ bestServer' = FallbackServer(servers)
       ELSE /\ rpc' = NextPhase("select")
            /\ bestServer' = selRet.server
  /\ selPc' = "idle"
  /\ numServers' = 0
  /\ serversToTest' = <<>>
  /\ spawned' = 0
  /\ gpc' = [i \in Slots |-> "none"]
  /\ glatency' = [i \in Slots |-> 0]
  /\ results' = <<>>
  /\ selRet' = [server |-> NilServer, err |-> "nil"]
  /\ UNCHANGED <<otherVars, ctxDone, servers, numServersToTest, gi, glats, requested, xferVars,
                 serverID, result, runRet, trace, fetched, phaseURL>>

\* part_003 224-229 and 113-131: step 4, RunPingTest, which fails when no
\* ping succeeded.
RunLatency ==
  /\ rpc = "latency"
  /\ trace' = Append(trace, "latency")
  /\ \E o \in CallOutcomes :
       IF o = "ok"
         THEN /\ rpc' = NextPhase("latency")
              /\ result' = [result EXCEPT !.Ping = TRUE]
              /\ UNCHANGED runRet
         ELSE /\ rpc' = "returned"
              /\ runRet' = ReturnError(result, "ping test failed")
              /\ UNCHANGED result
  /\ UNCHANGED <<otherVars, ctxDone, selVars, xferVars, serverID, bestServer, selErr, fetched>>
  /\ phaseURL' = [phaseURL EXCEPT !["latency"] = BaseURLOf(bestServer)]

\* The statement of Run at which the transfer test k is awaited.
Awaiting(k) == IF k = "download" THEN "downloading" ELSE "uploading"

\* part_003 232 and 243: the call of RunSimpleDownloadTest /
\* RunSimpleUploadTest.
RunTransferStart(k) ==
  /\ rpc = k
  /\ trace' = Append(trace, k)
  /\ xpc' = [xpc EXCEPT ![k] = "start"]
  /\ rpc' = Awaiting(k)
  /\ UNCHANGED <<otherVars, ctxDone, selVars, now, serverMode, xret, runPc, errChan, progress,
                 closed, rateCalc, totalBytes, mu, reqLeft, chunksLeft, wpc, wurl, wn,
                 wlast, wsnap, wload, handed, serverID, bestServer, selErr, result,
                 runRet, fetched>>
  /\ phaseURL' = [phaseURL EXCEPT ![k] = BaseURLOf(bestServer)]

\* part_003 233-240 and 244-251: the transfer test has returned; its error
\* ends Run, its result is copied otherwise. The locals of the returned call
\* are gone.
RunAfterTransfer(k) ==
  /\ rpc = Awaiting(k)
  /\ xpc[k] = "returned"
  /\ IF xret[k].err # "nil"
       THEN /\ rpc' = "returned"
            /\ runRet' = ReturnError(result, k \o " test failed")
            /\ UNCHANGED result
       ELSE /\ rpc' = NextPhase(k)
            /\ result' = IF k = "download"
                           THEN [result EXCEPT !.Download =
                                   [Bandwidth |-> xret[k].Bandwidth, Bytes |-> xret[k].Bytes]]
                           ELSE [result EXCEPT !.Upload =
                                   [Bandwidth |-> xret[k].Bandwidth, Bytes |-> xret[k].Bytes]]
            /\ UNCHANGED runRet
  /\ rateCalc' = [rateCalc EXCEPT ![k] = StartedRateCalculator(0)]
  /\ totalBytes' = [totalBytes EXCEPT ![k] = 0]
  /\ handed' = [handed EXCEPT ![k] = 0]
  /\ wsnap' = [wsnap EXCEPT ![k] = [w \in Workers |-> [Rate |-> Rat(0, 1), BytesTotal |-> 0]]]
  /\ UNCHANGED <<wload, otherVars, ctxDone, selVars, now, serverMode, xpc, xret, runPc, errChan, progress,
                 closed, mu, reqLeft, chunksLeft, wpc, wurl, wn, wlast, serverID,
                 bestServer, selErr, trace, fetched, phaseURL>>

\* part_003 253-263: step 7, result.Server is filled and Run returns the
\* result.
RunAssemble ==
  /\ rpc = "assemble"
  /\ trace' = Append(trace, "assembly")
  /\ result' = [result EXCEPT !.Server = bestServer.id]
  /\ runRet' = [result |-> <<result'>>, err |-> "nil"]
  /\ rpc' = "returned"
  /\ UNCHANGED <<otherVars, ctxDone, selVars, xferVars, serverID, bestServer, selErr, fetched, phaseURL>>

RunnerStep ==
  \/ RunDetectLocation
  \/ RunFetchServers
  \/ RunSelectServer
  \/ RunAfterSelect
  \/ RunLatency
  \/ \E k \in Kinds : RunTransferStart(k)
  \/ \E k \in Kinds : RunAfterTransfer(k)
  \/ RunAssemble

\* A call Run(ctx) of a Runner configured with a server ID or without, and
\* with a positive numServersToTest (part_003 153-172).
Init ==
  /\ ctxDone = FALSE
  /\ servers = <<>>
  /\ numServersToTest \in 1..(MaxServers + 1)
  /\ numServers = 0
  /\ selPc = "idle"
  /\ serversToTest = <<>>
  /\ spawned = 0
  /\ gpc = [i \in Slots |-> "none"]
  /\ gi = [i \in Slots |-> 0]
  /\ glats = [i \in Slots |-> <<>>]
  /\ glatency = [i \in Slots |-> 0]
  /\ results = <<>>
  /\ selRet = [server |-> NilServer, err |-> "nil"]
  /\ requested = {}
  /\ serverMode = "any"
  /\ TransferFresh(RunnerRequests, RunnerChunks)
  /\ rpc = "location"
  /\ serverID \in ServerIDs
  /\ bestServer = NilServer
  /\ selErr = "nil"
  /\ result = EmptyResult
  /\ runRet = [result |-> <<>>, err |-> "nil"]
  /\ trace = <<>>
  /\ fetched = <<>>
  /\ phaseURL = [p \in Phases |-> 0]
  /\ OthersIdle

Next == RunnerStep \/ SelectStep \/ TransferStep \/ Tick \/ Cancel

Spec == Init /\ [][Next]_vars

(* ------------------- the URL of the latency probes --------------------- *)

\* The pieces a server URL is made of; a URL is a sequence of pieces, its
\* text their concatenation. No text "/speedtest/" or scheme arises across two
\* pieces.
URLPieces == {"http://", "https://", "host", "/speedtest/", "upload.php"}

\* The URLs of up to n pieces.
URLsUpTo(n) == UNION {[1..k -> URLPieces] : k \in 1..n}

\* strings.HasPrefix(url, piece).
HasPrefix(url, piece) == Len(url) > 0 /\ url[1] = piece

\* strings.Index(url, piece) as a position among the pieces: 0 at the very
\* start of the text, -1 when absent.
Index(url, piece) ==
  IF \E i \in 1..Len(url) : url[i] = piece
    THEN (CHOOSE i \in 1..Len(url) :
            url[i] = piece /\ \A j \in 1..(i - 1) : url[j] # piece) - 1
    ELSE -1

\* discovery.go 71-85: "http://" is put in front of a URL without scheme;
\* the URL is cut at the first "/speedtest/" when that is not at its start.
GetServerBaseURL(url) ==
  LET withScheme == IF ~HasPrefix(url, "http://") /\ ~HasPrefix(url, "https://")
                      THEN <<"http://">> \o url
                      ELSE url
      idx == Index(withScheme, "/speedtest/")
  IN IF idx > 0 THEN SubSeq(withScheme, 1, idx) ELSE withScheme

\* part_003 33 and selection.go 115:
\* fmt.Sprintf("%s/speedtest/latency.txt", base).
LatencyURL(base) == base \o <<"/speedtest/", "latency.txt">>

\* selection.go 115: the ranking probe is built from server.URL itself.
RankingBase(url) == url

\* selection.go 114-132: measureServerLatency builds the URL it requests.
MeasureBuildsURL ==
  /\ serverURL # <<>>
  /\ rankProbe = <<>>
  /\ rankProbe' = LatencyURL(RankingBase(serverURL))
  /\ UNCHANGED <<ctxDone, selVars, xferVars, runVars, pingVars, rateVars, distVars, serverURL, finalProbe>>

\* part_003 222-225 and 33: Run passes GetServerBaseURL(bestServer) to
\* RunPingTest, and PingTest.Run builds the URL it requests.
RunBuildsURL ==
  /\ serverURL # <<>>
  /\ finalProbe = <<>>
  /\ finalProbe' = LatencyURL(GetServerBaseURL(serverURL))
  /\ UNCHANGED <<ctxDone, selVars, xferVars, runVars, pingVars, rateVars, distVars, serverURL, rankProbe>>

\* A server with any URL of up to MaxURLPieces pieces.
InitURL ==
  /\ ctxDone = FALSE
  /\ SelectIdle
  /\ serverMode = "any"
  /\ TransferIdle
  /\ RunnerIdle
  /\ PingIdle
  /\ RateIdle
  /\ DistIdle
  /\ serverURL \in URLsUpTo(MaxURLPieces)
  /\ rankProbe = <<>>
  /\ finalProbe = <<>>

NextURL == MeasureBuildsURL \/ RunBuildsURL

SpecURL == InitURL /\ [][NextURL]_vars

(* ---------------- float64 arithmetic, at a reduced precision ----------- *)

\* A float is <<m, e>>, the number m * 2^e, with 2^(MantissaBits-1) <= |m| <
\* 2^MantissaBits, or <<0, 0>>. Every operation rounds its exact result to
\* the nearest float, ties to the even mantissa, as IEEE 754 does.
RECURSIVE Pow2(_)
Pow2(k) == IF k <= 0 THEN 1 ELSE 2 * Pow2(k - 1)

FZero == <<0, 0>>

\* Bits to drop from the natural number M to leave MantissaBits of them.
RECURSIVE ExcessBits(_)
ExcessBits(M) == IF M < Pow2(MantissaBits) THEN 0 ELSE 1 + ExcessBits(M \div 2)

\* Bits to add to the positive number M to give it MantissaBits of them.
RECURSIVE MissingBits(_)
MissingBits(M) == IF M >= Pow2(MantissaBits - 1) THEN 0 ELSE 1 + MissingBits(2 * M)

\* The float nearest to M * 2^e, for a natural number M.
FRoundNat(M, e) ==
  IF M = 0 THEN FZero
  ELSE IF M < Pow2(MantissaBits - 1)
    THEN <<M * Pow2(MissingBits(M)), e - MissingBits(M)>>
  ELSE LET k == ExcessBits(M)
           q == M \div Pow2(k)
           r == M % Pow2(k)
           up == k > 0 /\ (2 * r > Pow2(k) \/ (2 * r = Pow2(k) /\ q % 2 = 1))
           m == IF up THEN q + 1 ELSE q
       IN IF m = Pow2(MantissaBits) THEN <<Pow2(MantissaBits - 1), e + k + 1>>
          ELSE <<m, e + k>>

\* The float nearest to M * 2^e, for an integer M.
FRound(M, e) ==
  IF M < 0 THEN <<0 - FRoundNat(0 - M, e)[1], FRoundNat(0 - M, e)[2]>>
  ELSE FRoundNat(M, e)

\* float64(n) for an integer n.
Float64(n) == FRound(n, 0)

\* Binary places to carry in n / d so that the quotient has a guard bit.
RECURSIVE QuotientBits(_, _)
QuotientBits(n, d) ==
  IF n \div d >= Pow2(MantissaBits + 1) THEN 0 ELSE 1 + QuotientBits(2 * n, d)

\* The float nearest to (n / d) * 2^e for naturals n and d > 0: the quotient
\* is carried to a guard bit and a sticky bit, then rounded.
FQuotient(n, d, e) ==
  IF n = 0 THEN FZero
  ELSE LET s == QuotientBits(n, d)
           N == n * Pow2(s)
           sticky == IF N % d = 0 THEN 0 ELSE 1
       IN FRoundNat(2 * (N \div d) + sticky, e - s - 1)

\* a + b.
FAdd(a, b) ==
  IF a = FZero THEN b
  ELSE IF b = FZero THEN a
  ELSE IF a[2] - b[2] > MantissaBits + 2 THEN a
  ELSE IF b[2] - a[2] > MantissaBits + 2 THEN b
  ELSE LET e == IF a[2] < b[2] THEN a[2] ELSE b[2]
       IN FRound(a[1] * Pow2(a[2] - e) + b[1] * Pow2(b[2] - e), e)

\* a - b.
FSub(a, b) == FAdd(a, <<0 - b[1], b[2]>>)

\* a * b.
FMul(a, b) == FRound(a[1] * b[1], a[2] + b[2])

\* a / float64(n) for a >= 0 and an integer n > 0.
FDivInt(a, n) == FQuotient(a[1], n, a[2])

\* math.Sqrt(a) for a >= 0: the mantissa is scaled to 2*MantissaBits+1 or
\* +2 bits under an even exponent, its integer root taken and rounded.
RECURSIVE SqrtShift(_, _)
SqrtShift(m, e) ==
  IF m >= Pow2(2 * MantissaBits) /\ e % 2 = 0 THEN 0 ELSE 1 + SqrtShift(2 * m, e - 1)

FSqrt(a) ==
  IF a = FZero THEN FZero
  ELSE LET g == SqrtShift(a[1], a[2])
           M == a[1] * Pow2(g)
           R == CHOOSE r \in Pow2(MantissaBits)..(Pow2(MantissaBits + 1) - 1) :
                  r * r <= M /\ M < (r + 1) * (r + 1)
           sticky == IF R * R = M THEN 0 ELSE 1
       IN FRoundNat(2 * R + sticky, ((a[2] - g) \div 2) - 1)

(* --------- PingTest.Run, RunPingTest and GetLatencyResult -------------- *)

Pings == 1..numPings

PingHeld_NeverReleased == pingSpawned

\* Number of ping goroutines holding a slot of PingTest.Run's sem.
PingHeld == Cardinality({i \in Pings : ppc[i] \in {"start", "do"}})

\* part_003 73: only a response with status 200 gives a sample.
PingCounts_AnyResponse(o) == o # "err"

PingCounts(o) == o = "200"

\* How a ping's GET may end: a transport error or timeout (the only outcome
\* once ctx is done), a status other than 200, or 200.
PingOutcomes == IF ctxDone THEN {"err"} ELSE {"err", "500", "200"}

\* time.Second, in ticks.
TicksPerSecond == 1000 * TicksPerMs

\* time.Duration.Milliseconds(): the duration in whole milliseconds.
Milliseconds(d) == d \div TicksPerMs

\* time.Duration.Seconds(): float64(sec) + float64(nsec)/1e9.
Seconds(d) ==
  FAdd(Float64(d \div TicksPerSecond),
       FQuotient(d % TicksPerSecond, TicksPerSecond, 0))

\* part_003 93-96: sum += l.Seconds() over the samples.
RECURSIVE SumSeconds(_)
SumSeconds(lats) ==
  IF lats = <<>> THEN FZero
  ELSE FAdd(SumSeconds(SubSeq(lats, 1, Len(lats) - 1)), Seconds(lats[Len(lats)]))

\* part_003 101-105: varianceSum += diff * diff over the samples, diff being
\* l.Seconds() - avg.
RECURSIVE VarianceSum(_, _)
VarianceSum(lats, avg) ==
  IF lats = <<>> THEN FZero
  ELSE LET diff == FSub(Seconds(lats[Len(lats)]), avg)
       IN FAdd(VarianceSum(SubSeq(lats, 1, Len(lats) - 1), avg), FMul(diff, diff))

\* part_003 88-110: CalculateLatency, the average and the standard deviation
\* of the samples, both in milliseconds.
CalculateLatency(lats) ==
  IF Len(lats) = 0 THEN [latency |-> FZero, jitter |-> FZero]
  ELSE LET avg == FDivInt(SumSeconds(lats), Len(lats))
           stdDev == FSqrt(FDivInt(VarianceSum(lats, avg), Len(lats)))
       IN [latency |-> FMul(avg, Float64(1000)), jitter |-> FMul(stdDev, Float64(1000))]

\* part_003 120-130: RunPingTest fails without a sample, else returns the
\* PingResult.
PingTestResult_ZeroStat(lats) ==
  [result |-> <<[Jitter |-> CalculateLatency(lats).jitter,
                 Latency |-> CalculateLatency(lats).latency]>>,
   err |-> "nil"]

PingTestResult(lats) ==
  IF Len(lats) = 0
    THEN [result |-> <<>>, err |-> "no successful pings"]
    ELSE [result |-> <<[Jitter |-> CalculateLatency(lats).jitter,
                        Latency |-> CalculateLatency(lats).latency]>>,
          err |-> "nil"]

\* selection.go 173-180: GetLatencyResult fails on latency 0, else returns
\* the PingResult with the latency in whole milliseconds.
LatencyResult(latency) ==
  IF latency = 0
    THEN [result |-> <<>>, err |-> "failed to measure latency"]
    ELSE [result |-> <<[Jitter |-> FZero,
                        Latency |-> Float64(Milliseconds(latency))]>>,
          err |-> "nil"]

\* part_003 42-44: one iteration of the loop of PingTest.Run: wg.Add(1), the
\* semaphore slot, the goroutine.
PingSpawn ==
  /\ pingPc = "spawn"
  /\ pingSpawned < numPings
  /\ MayAcquire(PingHeld, pingSemCap)
  /\ pingSpawned' = pingSpawned + 1
  /\ ppc' = [ppc EXCEPT ![pingSpawned + 1] = "start"]
  /\ UNCHANGED <<notPing, pingCall, pingPc, latencies, pok, pingRet>>

\* part_003 50-66: the goroutine's check of ctx, then the request is sent.
PingStart(i) ==
  /\ ppc[i] = "start"
  /\ ppc' = [ppc EXCEPT ![i] = IF ctxDone THEN "done" ELSE "do"]
  /\ UNCHANGED <<notPing, pingCall, pingPc, pingSpawned, latencies, pok, pingRet>>

\* part_003 66-78: the request ends; on 200 the latency is appended under mu;
\* the deferred calls free the slot.
PingDo(i) ==
  /\ ppc[i] = "do"
  /\ \E o \in PingOutcomes :
       /\ pok' = IF o = "200" THEN pok + 1 ELSE pok
       /\ IF PingCounts(o)
            THEN \E l \in Latencies : latencies' = Append(latencies, l)
            ELSE UNCHANGED latencies
  /\ ppc' = [ppc EXCEPT ![i] = "done"]
  /\ UNCHANGED <<notPing, pingCall, pingPc, pingSpawned, pingRet>>

\* part_003 82-84: wg.Wait() is over and Run returns latencies, nil.
PingRunReturn ==
  /\ pingPc = "spawn"
  /\ pingSpawned = numPings
  /\ \A i \in Pings : ppc[i] = "done"
  /\ pingPc' = "ran"
  /\ UNCHANGED <<notPing, pingCall, pingSpawned, ppc, latencies, pok, pingRet>>

\* part_003 115-130: RunPingTest turns what Run returned into its result.
RunPingTestReturn ==
  /\ pingCall = "RunPingTest"
  /\ pingPc = "ran"
  /\ pingRet' = PingTestResult(latencies)
  /\ pingPc' = "returned"
  /\ UNCHANGED <<notPing, pingCall, pingSpawned, ppc, latencies, pok>>

\* selection.go 164-172: GetLatencyResult refuses a nil server, else calls
\* measureServerLatency on the server.
GetLatencyEnter ==
  /\ pingCall = "GetLatencyResult"
  /\ pingPc = "enter"
  /\ IF serversToTest[1] = NilServer
       THEN /\ pingRet' = [result |-> <<>>, err |-> "server is nil"]
            /\ pingPc' = "returned"
            /\ UNCHANGED gpc
       ELSE /\ gpc' = [gpc EXCEPT ![1] = "ping"]
            /\ pingPc' = "measure"
            /\ UNCHANGED pingRet
  /\ UNCHANGED <<ctxDone, servers, numServersToTest, selPc, numServers, serversToTest,
                 spawned, gi, glats, glatency, results, selRet, requested, xferVars,
                 runVars, urlVars, rateVars, distVars, pingCall, pingSpawned, ppc,
                 latencies,
                 pok>>

\* selection.go 172-180: measureServerLatency has returned.
GetLatencyReturn ==
  /\ pingCall = "GetLatencyResult"
  /\ pingPc = "measure"
  /\ gpc[1] = "done"
  /\ pingRet' = LatencyResult(glatency[1])
  /\ pingPc' = "returned"
  /\ UNCHANGED <<notPing, pingCall, pingSpawned, ppc, latencies, pok>>

PingStep ==
  \/ PingSpawn
  \/ \E i \in Pings : PingStart(i)
  \/ \E i \in Pings : PingDo(i)
  \/ PingRunReturn
  \/ RunPingTestReturn
  \/ GetLatencyEnter
  \/ GetLatencyReturn

\* One of three calls: RunPingTest(ctx, serverURL); GetLatencyResult(ctx,
\* server) with a server or nil; SelectBestServerByPing on more servers than
\* the semaphore of pingServers has slots, all of them failing every request.
InitPing ==
  /\ ctxDone = FALSE
  /\ TransferIdle
  /\ RunnerIdle
  /\ URLIdle
  /\ RateIdle
  /\ DistIdle
  /\ pingCall \in {"RunPingTest", "GetLatencyResult", "pingServers"}
  /\ pingPc = CASE pingCall = "RunPingTest" -> "spawn"
                [] pingCall = "GetLatencyResult" -> "enter"
                [] pingCall = "pingServers" -> "idle"
  /\ pingSpawned = 0
  /\ ppc = [i \in Pings |-> "none"]
  /\ latencies = <<>>
  /\ pok = 0
  /\ pingRet = [result |-> <<>>, err |-> "nil"]
  /\ serverMode = IF pingCall = "pingServers" THEN "all500" ELSE "any"
  /\ servers = IF pingCall = "pingServers" THEN ServerList(MaxServers + 2) ELSE <<>>
  /\ numServersToTest = 0
  /\ numServers = 0
  /\ selPc = IF pingCall = "pingServers" THEN "enter" ELSE "idle"
  /\ serversToTest \in IF pingCall = "GetLatencyResult"
                         THEN {<<NilServer>>, <<ServerOf(1)>>}
                         ELSE {<<>>}
  /\ spawned = 0
  /\ gpc = [i \in Slots |-> "none"]
  /\ gi = [i \in Slots |-> 0]
  /\ glats = [i \in Slots |-> <<>>]
  /\ glatency = [i \in Slots |-> 0]
  /\ results = <<>>
  /\ selRet = [server |-> NilServer, err |-> "nil"]
  /\ requested = {}

NextPing == PingStep \/ SelectStep \/ Cancel

SpecPing == InitPing /\ [][NextPing]_vars

\* The steps of PingTest.Run and of its goroutines.
PingRunStep ==
  \/ PingSpawn
  \/ \E i \in Pings : PingStart(i)
  \/ \E i \in Pings : PingDo(i)
  \/ PingRunReturn

\* PingTest.Run, pingServers and their goroutines are scheduled fairly
\* (every request ends, by its answer or by the client's timeout); the
\* caller's cancellation is not forced.
FairSpecPing == SpecPing /\ WF_vars(PingRunStep) /\ WF_vars(SelectStep)

(* ------------- the rate estimator driven by a single caller ------------ *)

\* The cumulative byte counts a caller may hand to Update.
ByteCounts == {100 * i : i \in 0..MaxHundreds}

\* upload_test.go 535-553: one call rc.Update(bytes), made elapsed ticks after
\* the previous call; the instantaneous rate, when one is computed, and the
\* estimate that follows from it are recorded.
RateUpdate ==
  /\ calls < MaxObs
  /\ \E bytes \in ByteCounts, d \in 0..MaxElapsed :
       LET t == clock + d
           elapsed == t - calc.lastTime
           deltaBytes == bytes - calc.lastBytes
           observed == elapsed > 0 /\ deltaBytes > 0
       IN /\ clock' = t
          /\ calc' = Update(calc, bytes, t)
          /\ lastCall' = [op |-> "Update", bytes |-> bytes, elapsed |-> elapsed]
          /\ rates' = IF observed THEN Append(rates, Rat(deltaBytes, elapsed)) ELSE rates
          /\ estimates' = IF observed THEN Append(estimates, Rate(calc')) ELSE estimates
          /\ allPositive' = (allPositive /\ observed)
          /\ folded' = IF observed THEN folded + deltaBytes ELSE folded
          /\ nonDecreasing' = (nonDecreasing /\ bytes >= lastCall.bytes)
  /\ calls' = calls + 1
  /\ UNCHANGED <<ctxDone, selVars, xferVars, runVars, urlVars, pingVars, distVars>>

\* upload_test.go 566-574: Reset starts the calculator afresh.
RateReset ==
  /\ calls < MaxObs
  /\ calls > 0
  /\ lastCall.op = "Update"
  /\ \E d \in 0..MaxElapsed :
       /\ clock' = clock + d
       /\ calc' = StartedRateCalculator(clock')
       /\ lastCall' = [op |-> "Reset", bytes |-> 0, elapsed |-> d]
  /\ rates' = <<>>
  /\ estimates' = <<>>
  /\ allPositive' = TRUE
  /\ folded' = 0
  /\ nonDecreasing' = TRUE
  /\ calls' = calls + 1
  /\ UNCHANGED <<ctxDone, selVars, xferVars, runVars, urlVars, pingVars, distVars>>

\* NewRateCalculator and Start have been called.
InitRate ==
  /\ ctxDone = FALSE
  /\ SelectIdle
  /\ serverMode = "any"
  /\ TransferIdle
  /\ RunnerIdle
  /\ URLIdle
  /\ PingIdle
  /\ RateIdle
  /\ DistIdle

NextRate == RateUpdate \/ RateReset

SpecRate == InitRate /\ [][NextRate]_vars

(* ---------------------- SortServersByDistance alone -------------------- *)

\* The slices a caller may hand to SortServersByDistance: the server at
\* position i has ID i and any distance.
UnsortedLists ==
  UNION {{[i \in 1..n |-> [id |-> i, dist |-> d[i]]] : d \in [1..n -> 1..MaxDistance]} :
           n \in 0..MaxSortLen}

\* distance.go 47-58: SortServersByDistance(servers) is called and returns.
SortCall ==
  /\ rpc = "sort"
  /\ servers' = SortServersByDistance(servers)
  /\ rpc' = "sorted"
  /\ UNCHANGED <<ctxDone, numServersToTest, selPc, numServers, serversToTest, spawned,
                 gpc, gi, glats, glatency, results, selRet, requested, xferVars,
                 serverID, bestServer, selErr, result, runRet, trace, fetched, phaseURL,
                 otherVars>>

InitSort ==
  /\ ctxDone = FALSE
  /\ fetched \in UnsortedLists
  /\ servers = fetched
  /\ phaseURL = [p \in Phases |-> 0]
  /\ numServersToTest = 0
  /\ numServers = 0
  /\ selPc = "idle"
  /\ serversToTest = <<>>
  /\ spawned = 0
  /\ gpc = [i \in Slots |-> "none"]
  /\ gi = [i \in Slots |-> 0]
  /\ glats = [i \in Slots |-> <<>>]
  /\ glatency = [i \in Slots |-> 0]
  /\ results = <<>>
  /\ selRet = [server |-> NilServer, err |-> "nil"]
  /\ requested = {}
  /\ serverMode = "any"
  /\ TransferIdle
  /\ rpc = "sort"
  /\ serverID = 0
  /\ bestServer = NilServer
  /\ selErr = "nil"
  /\ result = EmptyResult
  /\ runRet = [result |-> <<>>, err |-> "nil"]
  /\ trace = <<>>
  /\ OthersIdle

NextSort == SortCall

SpecSort == InitSort /\ [][NextSort]_vars

(* -------------------- CalculateServerDistances alone ------------------- *)

\* strconv.ParseFloat, on strings given as sequences of characters and
\* reduced to whole numbers: an optional "-" followed by one or more
\* digits is a number; anything else, the empty string included, is a syntax
\* error, for which ParseFloat returns 0 and the error.
Digits == {"0", "1", "2", "3", "4", "5", "6", "7", "8", "9"}

DigitValue(c) ==
  CASE c = "0" -> 0 [] c = "1" -> 1 [] c = "2" -> 2 [] c = "3" -> 3 [] c = "4" -> 4
    [] c = "5" -> 5 [] c = "6" -> 6 [] c = "7" -> 7 [] c = "8" -> 8 [] c = "9" -> 9

RECURSIVE DecimalValue(_)
DecimalValue(ds) ==
  IF ds = <<>> THEN 0
  ELSE 10 * DecimalValue(SubSeq(ds, 1, Len(ds) - 1)) + DigitValue(ds[Len(ds)])

ParseFloat(str) ==
  LET negative == str # <<>> /\ Head(str) = "-"
      ds == IF negative THEN Tail(str) ELSE str
  IN IF ds # <<>> /\ \A i \in 1..Len(ds) : ds[i] \in Digits
       THEN [val |-> IF negative THEN 0 - DecimalValue(ds) ELSE DecimalValue(ds),
             err |-> FALSE]
       ELSE [val |-> 0, err |-> TRUE]

\* distance.go 60-62: parseCoordinate.
parseCoordinate(coord) == ParseFloat(coord)

AbsDiff(a, b) == IF a >= b THEN a - b ELSE b - a

\* distance.go 12-27: CalculateDistance. The great-circle distance is
\* stood for by the distance on the grid of whole degrees, which like it
\* is 0 for equal points and positive otherwise.
CalculateDistance(lat1, lon1, lat2, lon2) == AbsDiff(lat1, lat2) + AbsDiff(lon1, lon2)

\* distance.go 31-44: the loop of CalculateServerDistances from index i on.
RECURSIVE DistancesFrom_StopsAtBadEntry(_, _, _, _)
DistancesFrom_StopsAtBadEntry(srvs, i, lat, lon) ==
  IF i > Len(srvs) THEN srvs
  ELSE LET serverLat == parseCoordinate(srvs[i].Lat)
           serverLon == parseCoordinate(srvs[i].Lon)
       IN IF serverLat.err \/ serverLon.err
            THEN [srvs EXCEPT ![i].Distance = 0]
            ELSE DistancesFrom_StopsAtBadEntry(
                   [srvs EXCEPT ![i].Distance =
                      CalculateDistance(lat, lon, serverLat.val, serverLon.val)],
                   i + 1, lat, lon)

RECURSIVE DistancesFrom(_, _, _, _)
DistancesFrom(srvs, i, lat, lon) ==
  IF i > Len(srvs) THEN srvs
  ELSE LET serverLat == parseCoordinate(srvs[i].Lat)
           serverLon == parseCoordinate(srvs[i].Lon)
       IN IF serverLat.err
            THEN DistancesFrom([srvs EXCEPT ![i].Distance = 0], i + 1, lat, lon)
          ELSE IF serverLon.err
            THEN DistancesFrom([srvs EXCEPT ![i].Distance = 0], i + 1, lat, lon)
          ELSE DistancesFrom(
                 [srvs EXCEPT ![i].Distance =
                    CalculateDistance(lat, lon, serverLat.val, serverLon.val)],
                 i + 1, lat, lon)

\* distance.go 30-45: CalculateServerDistances(servers, userLat, userLon).
CalculateServerDistances(srvs, lat, lon) == DistancesFrom(srvs, 1, lat, lon)

\* The coordinate strings of the directory: numbers, a word, a number with
\* a letter after it, and the empty string.
CoordTexts == {<<"1">>, <<"-", "1">>, <<"x">>, <<"1", "x">>, <<>>}

\* The slices a caller may hand to CalculateServerDistances: the server at
\* position i has ID i, any coordinate strings, and a Distance of 0 or one
\* left from before.
UnmeasuredLists ==
  UNION {[1..n -> [Lat : CoordTexts, Lon : CoordTexts, Distance : {0, MaxDistance}]] :
           n \in 0..MaxCoordServers}

\* distance.go 30-45: CalculateServerDistances(servers, userLat, userLon) is
\* called and returns.
DistancesCall ==
  /\ rpc = "distances"
  /\ servers' = CalculateServerDistances(servers, userLat, userLon)
  /\ rpc' = "measured"
  /\ UNCHANGED <<ctxDone, numServersToTest, selPc, numServers, serversToTest, spawned,
                 gpc, gi, glats, glatency, results, selRet, requested, xferVars,
                 serverID, bestServer, selErr, result, runRet, trace, fetched, phaseURL,
                 otherVars>>

InitDistances ==
  /\ ctxDone = FALSE
  /\ fetched \in UnmeasuredLists
  /\ servers = fetched
  /\ userLat \in 0..MaxDegree
  /\ userLon \in 0..MaxDegree
  /\ phaseURL = [p \in Phases |-> 0]
  /\ numServersToTest = 0
  /\ numServers = 0
  /\ selPc = "idle"
  /\ serversToTest = <<>>
  /\ spawned = 0
  /\ gpc = [i \in Slots |-> "none"]
  /\ gi = [i \in Slots |-> 0]
  /\ glats = [i \in Slots |-> <<>>]
  /\ glatency = [i \in Slots |-> 0]
  /\ results = <<>>
  /\ selRet = [server |-> NilServer, err |-> "nil"]
  /\ requested = {}
  /\ serverMode = "any"
  /\ TransferIdle
  /\ rpc = "distances"
  /\ serverID = 0
  /\ bestServer = NilServer
  /\ selErr = "nil"
  /\ result = EmptyResult
  /\ runRet = [result |-> <<>>, err |-> "nil"]
  /\ trace = <<>>
  /\ URLIdle
  /\ PingIdle
  /\ RateIdle

NextDistances == DistancesCall

SpecDistances == InitDistances /\ [][NextDistances]_vars

(* ------------------------ CalculateLatency alone ----------------------- *)

\* The slices a caller may hand to CalculateLatency.
SampleLists == UNION {[1..n -> 1..MaxSampleTicks] : n \in 0..MaxSamples}

\* part_003 88-110: CalculateLatency(latencies) is called and returns.
CalculateLatencyCall ==
  /\ pingCall = "CalculateLatency"
  /\ pingPc = "enter"
  /\ pingRet' = [result |-> <<[Jitter |-> CalculateLatency(latencies).jitter,
                               Latency |-> CalculateLatency(latencies).latency]>>,
                 err |-> "nil"]
  /\ pingPc' = "returned"
  /\ UNCHANGED <<notPing, pingCall, pingSpawned, ppc, latencies, pok>>

InitLatency ==
  /\ ctxDone = FALSE
  /\ SelectIdle
  /\ serverMode = "any"
  /\ TransferIdle
  /\ RunnerIdle
  /\ URLIdle
  /\ RateIdle
  /\ DistIdle
  /\ pingCall = "CalculateLatency"
  /\ pingPc = "enter"
  /\ pingSpawned = 0
  /\ ppc = [i \in Pings |-> "none"]
  /\ latencies \in SampleLists
  /\ pok = 0
  /\ pingRet = [result |-> <<>>, err |-> "nil"]

NextLatency == CalculateLatencyCall

SpecLatency == InitLatency /\ [][NextLatency]_vars

(* ====================================================================== *)
(*                        Properties of the selection                     *)
(* ====================================================================== *)

\* Positions of the probed candidates for which measureServerLatency
\* returned a latency (a positive average).
Obtained == {i \in 1..Len(serversToTest) : glatency[i] > 0}

\* Position of a server in the candidate list (0 for the nil server).
PositionOf(srv) ==
  IF \E i \in 1..Len(servers) : servers[i] = srv
    THEN CHOOSE i \in 1..Len(servers) : servers[i] = srv
    ELSE 0

\* The length of the prefix the caller asked for: min(N, len(servers)), N <= 0
\* or N > len(servers) standing for the whole list.
WantedPrefix ==
  LET len == Len(servers) IN
    IF numServersToTest >= 1 /\ numServersToTest <= len THEN numServersToTest ELSE len

\* Positions for which pingServers has launched a probe goroutine.
Launched == {i \in Slots : gpc[i] # "none"}

\* C8: among the probed candidates for which a latency was obtained,
\* SelectBestServerByPing returns, without error, one whose average latency is
\* minimal; when exactly one candidate yielded a latency it is the one
\* returned, wherever it stands in the distance order.
C8_ReturnsMinimalLatency ==
  (selPc = "returned" /\ Obtained # {}) =>
     /\ selRet.err = "nil"
     /\ \E i \in Obtained :
          /\ selRet.server = serversToTest[i]
          /\ \A j \in Obtained : glatency[i] <= glatency[j]
     /\ \A i \in Obtained : Obtained = {i} => selRet.server = serversToTest[i]

\* C8 witness: only the second candidate answered, and it was returned.
C8_Witness ==
  /\ selPc = "returned"
  /\ Obtained = {2}
  /\ requested = {1, 2}
  /\ selRet.server = ServerOf(2)

\* C9: when several probed candidates share the minimal average latency, the
\* one returned is the earliest of them in the input (distance) order.
C9_TieGoesToEarliest ==
  (selPc = "returned" /\ Obtained # {}) =>
     \A j \in Obtained :
        (\A k \in Obtained : glatency[j] <= glatency[k])
           => PositionOf(selRet.server) <= j

\* C10: exactly the first min(N, len(servers)) candidates are handed to the
\* probing (N <= 0 or N > len(servers) meaning all of them): no probe
\* goroutine and no latency request ever concerns a candidate outside that
\* prefix, at return every candidate of the prefix has its probe goroutine
\* and, unless the context was cancelled, has been sent a request, the server
\* returned lies in the prefix, and an empty list yields an error and no
\* server.
C10_ProbesExactlyThePrefix ==
  /\ selPc # "enter" =>
       /\ Launched \subseteq 1..WantedPrefix
       /\ requested \subseteq {servers[i].id : i \in 1..WantedPrefix}
  /\ selPc = "returned" =>
       /\ Launched = 1..WantedPrefix
       /\ ~ctxDone => requested = {servers[i].id : i \in 1..WantedPrefix}
       /\ Len(servers) = 0 => selRet.server = NilServer /\ selRet.err # "nil"
       /\ Len(servers) > 0 => PositionOf(selRet.server) \in 1..WantedPrefix

\* C10 witness: two candidates, N = 1: only the first was probed and returned.
C10_Witness ==
  /\ selPc = "returned"
  /\ Len(servers) = 2
  /\ numServersToTest = 1
  /\ ~ctxDone
  /\ requested = {1}
  /\ Launched = {1}
  /\ selRet.server = ServerOf(1)

(* ====================================================================== *)
(*                     Properties of the transfer tests                   *)
(* ====================================================================== *)

\* C3: a transfer worker leaves its loop only once the test deadline or a
\* cancellation has fired; after any completed operation, successful or
\* failed, it goes on with another one.
C3_WorkerLeavesOnlyWhenDone ==
  [][\A k \in Kinds, w \in Workers :
        (wpc[k][w] # "exited" /\ wpc'[k][w] = "exited") => TestCtxDone(k)]_vars

\* C4: the bandwidth RunSimpleDownloadTest / RunSimpleUploadTest reports
\* without error is the rate estimator's last smoothed value (as int64) at
\* the moment all workers have exited.
C4_ReportsLastSmoothedRate ==
  \A k \in Kinds :
     (xpc[k] = "returned" /\ xret[k].err = "nil")
        => xret[k].Bandwidth = Int64(Rate(rateCalc[k]))

TransferOver ==
  \A k \in Kinds :
     /\ xpc[k] \in {"idle", "returned"}
     /\ runPc[k] \in {"idle", "done"}
     /\ \A w \in Workers : wpc[k][w] \in {"idle", "exited"}

\* C6: once the caller's context is cancelled, every worker exits and Run
\* and RunSimple*Test return, whatever the workers were doing and without
\* any further passing of time.
C6_CancelEndsTheTest == ctxDone ~> TransferOver

\* C6 witness: a test cancelled before its deadline is over while the
\* deadline has still not come, with bytes counted whose snapshot was not the
\* one reported (a worker gave up its progress send).
C6_Witness ==
  \E k \in Kinds :
     /\ ctxDone
     /\ now < TestDuration
     /\ TransferOver
     /\ xpc[k] = "returned"
     /\ xret[k].err = "ctx"
     /\ totalBytes[k] > xret[k].Bytes

(* ====================================================================== *)
(*                         Properties of Runner.Run                       *)
(* ====================================================================== *)

\* a is an initial part of b.
IsPrefix(a, b) == Len(a) <= Len(b) /\ a = SubSeq(b, 1, Len(a))

\* The transfer test k has been called and has not returned, or one of its
\* workers is still in its loop.
Active(k) ==
  \/ xpc[k] \notin {"idle", "returned"}
  \/ \E w \in Workers : wpc[k][w] \notin {"idle", "exited"}

PhaseOfError(err) ==
  CASE err = "failed to detect location" -> "location"
    [] err = "failed to fetch servers"   -> "fetch"
    [] err = "server not found"          -> "selection"
    [] err = "ping test failed"          -> "latency"
    [] err = "download test failed"      -> "download"
    [] err = "upload test failed"        -> "upload"

\* C2: a failure of location detection, the fetch, the server-ID lookup, the
\* latency test or a transfer test makes Run return at once a nil result
\* and the error of that phase; nothing of a later phase happens; after a
\* location or fetch failure no latency probe and no transfer request has
\* been issued.
C2_FailureReturnsNilAtOnce ==
  /\ [](runRet.err # "nil" =>
          /\ rpc = "returned"
          /\ runRet.result = <<>>
          /\ trace[Len(trace)] = PhaseOfError(runRet.err)
          /\ PhaseOfError(runRet.err) \in {"location", "fetch"} =>
               /\ requested = {}
               /\ \A k \in Kinds : xpc[k] = "idle" /\ reqLeft[k] = RunnerRequests)
  /\ [][/\ (rpc = "select" /\ serverID # 0 /\ rpc' # rpc
            /\ \A i \in 1..Len(servers) : servers[i].id # serverID)
           => (rpc' = "returned" /\ runRet'.err = "server not found")
        /\ \A k \in Kinds :
             (rpc = Awaiting(k) /\ rpc' # rpc /\ xret[k].err # "nil")
               => (rpc' = "returned" /\ runRet'.err = k \o " test failed")
        /\ rpc = "returned" =>
             /\ rpc' = rpc /\ runRet' = runRet /\ trace' = trace
             /\ requested' = requested /\ xpc' = xpc /\ reqLeft' = reqLeft]_vars

\* C2 witness: the upload test failed after the ping and download results
\* had been stored, and Run returned nil with the upload error.
C2_Witness ==
  /\ rpc = "returned"
  /\ runRet = [result |-> <<>>, err |-> "upload test failed"]
  /\ result.Ping
  /\ result.Download.Bytes > 0

\* C7: when no probed candidate yields a latency, SelectBestServerByPing
\* hands back the first candidate of the list, and Run goes on to the
\* latency phase and the later ones with that server.
C7_AllProbesFailedUsesFirst ==
  /\ []((selPc = "returned" /\ servers # <<>> /\ results = <<>>) =>
          (selRet.server = servers[1] /\ selRet.err # "nil"))
  /\ []((selErr # "nil" /\ servers # <<>>) =>
          /\ bestServer = servers[1]
          /\ runRet.err # "nil" => PhaseOfError(runRet.err) \in {"latency", "download", "upload"}
          /\ (rpc = "returned" /\ runRet.err = "nil") =>
               runRet.result[1].Server = servers[1].id)
  /\ [][(rpc = "selecting" /\ rpc' # rpc /\ servers # <<>> /\ results = <<>>) =>
          (rpc' = "latency" /\ bestServer' = servers[1] /\ runRet' = runRet)]_vars

\* C7 witness: probes were issued to a list of MaxServers candidates, none
\* answered although the context was never cancelled, and Run completed with
\* the first candidate.
C7_Witness ==
  /\ ~ctxDone
  /\ selErr # "nil"
  /\ requested # {}
  /\ Len(servers) = MaxServers
  /\ rpc = "returned"
  /\ runRet.err = "nil"
  /\ runRet.result[1].Server = servers[1].id

\* C11: with a server ID configured, Run never calls SelectBestServerByPing
\* and sends no ranking probe; the server it goes on with is the candidate
\* with that ID; when no candidate has the ID, Run returns the
\* server-not-found error right in the selection phase, before the latency,
\* download and upload phases.
C11_ServerIDBypassesRanking ==
  serverID # 0 =>
    /\ selPc = "idle"
    /\ selErr = "nil"
    /\ requested = {}
    /\ \A i \in Slots : gpc[i] = "none"
    /\ Len(trace) >= 4 =>
         /\ bestServer.id = serverID
         /\ \E i \in 1..Len(servers) : servers[i] = bestServer
    /\ (rpc = "returned" /\ runRet.err = "nil") => runRet.result[1].Server = serverID
    /\ (Len(trace) >= 3 /\ \A i \in 1..Len(servers) : servers[i].id # serverID) =>
         /\ rpc = "returned"
         /\ runRet = [result |-> <<>>, err |-> "server not found"]
         /\ Len(trace) = 3
         /\ ~result.Ping
         /\ \A k \in Kinds : xpc[k] = "idle" /\ reqLeft[k] = RunnerRequests

\* C11 witness: a Run configured with the ID of a listed server completed
\* with that server, out of a list of MaxServers candidates.
C11_Witness ==
  /\ serverID # 0
  /\ Len(servers) = MaxServers
  /\ rpc = "returned"
  /\ runRet.err = "nil"
  /\ runRet.result[1].Server = serverID

\* C12: with a server ID configured, Run neither sorts the fetched list by
\* distance (the list it works on is the list as fetched) nor sends a ranking
\* probe.
C12_ServerIDSkipsSortAndProbes ==
  serverID # 0 => (servers = fetched /\ requested = {})

\* C17: a final latency test without a successful ping ends the Run only
\* when the list holds no other server to fall back to.
C17_PingFailureFatalOnlyWithoutFallback ==
  (rpc = "returned" /\ runRet.err = "ping test failed" /\ ~ctxDone)
     => Len(servers) <= 1

(* ====================================================================== *)
(*                     Properties of the latency probes                   *)
(* ====================================================================== *)

\* C13: the ranking probe and the final latency probe of a server both go to
\* GetServerBaseURL(server) followed by /speedtest/latency.txt, hence to the
\* same URL.
C13_ProbesGoToBaseURL ==
  (rankProbe # <<>> /\ finalProbe # <<>>) =>
     /\ rankProbe = GetServerBaseURL(serverURL) \o <<"/speedtest/", "latency.txt">>
     /\ finalProbe = rankProbe

\* C14: at no time do more than 3 latency probes hold a semaphore slot or
\* have a request in flight: neither the pings of one PingTest.Run nor the
\* servers probed by pingServers, however many pings or servers there are.
C14_AtMostThreeProbesAtOnce ==
  /\ PingHeld <= 3
  /\ Cardinality({i \in Pings : ppc[i] = "do"}) <= 3
  /\ SemHeld <= 3
  /\ Cardinality({i \in Slots : gpc[i] = "ping"}) <= 3

\* PingTest.Run has three requests in flight and pings still to start.
C14_Witness ==
  /\ Cardinality({i \in Pings : ppc[i] = "do"}) = 3
  /\ pingSpawned < numPings

\* C15: PingTest.Run holds exactly one sample per ping that completed with
\* HTTP 200 and none for the others, so it returns as many samples as pings
\* succeeded, at most numPings.
C15_OneSamplePerSuccessfulPing ==
  pingCall = "RunPingTest" => (Len(latencies) = pok /\ pok <= numPings)

\* All five pings are over, three of them answered 200, and Run has returned
\* on a live context.
C15_Witness ==
  /\ pingCall = "RunPingTest"
  /\ pingPc = "ran"
  /\ ~ctxDone
  /\ pok = 3
  /\ Len(latencies) = 3

\* C16: a latency measurement without a single successful sample returns an
\* error and no PingResult, from RunPingTest and from GetLatencyResult alike.
C16_NoSampleIsAnError ==
  (pingCall \in {"RunPingTest", "GetLatencyResult"} /\ pingPc = "returned" /\ pok = 0)
    => (pingRet.result = <<>> /\ pingRet.err # "nil")

\* RunPingTest has returned after five pings that were all sent and of which
\* none succeeded.
C16_Witness ==
  /\ pingCall = "RunPingTest"
  /\ pingPc = "returned"
  /\ ~ctxDone
  /\ pok = 0
  /\ pingSpawned = numPings

(* ====================================================================== *)
(*                   Properties of the rate estimator                     *)
(* ====================================================================== *)

\* a < b and a <= b for rationals in lowest terms.
RatLess(a, b) == a[1] * b[2] < b[1] * a[2]

RatLeq(a, b) == a[1] * b[2] <= b[1] * a[2]

\* The smallest and the largest of the rates observed so far.
RatesSeen == {rates[i] : i \in 1..Len(rates)}

MinRate == CHOOSE r \in RatesSeen : \A q \in RatesSeen : RatLeq(r, q)

MaxRate == CHOOSE r \in RatesSeen : \A q \in RatesSeen : RatLeq(q, r)

\* C18: the first rate observed becomes the estimate as it is, and every
\* later one gives estimate = 0.1 * rate + 0.9 * previous estimate (checked
\* as 10 * estimate = rate + 9 * previous); the estimate is what Rate()
\* returns.
C18_FirstTakenLaterBlended ==
  /\ Len(estimates) = Len(rates)
  /\ rates # <<>> => /\ Rate(calc) = estimates[Len(estimates)]
                     /\ calc.ewma.initialized
                     /\ calc.ewma.value = Rate(calc)
  /\ \A i \in 1..Len(rates) :
       IF i = 1
         THEN estimates[1] = rates[1]
         ELSE 10 * estimates[i][1] * rates[i][2] * estimates[i - 1][2]
                = estimates[i][2] * (rates[i][1] * estimates[i - 1][2]
                                       + 9 * estimates[i - 1][1] * rates[i][2])

\* Rates 100 then 200 have given the estimates 100 then 110.
C18_Witness ==
  /\ rates = << <<100, 1>>, <<200, 1>> >>
  /\ estimates = << <<100, 1>>, <<110, 1>> >>
  /\ Rate(calc) = <<110, 1>>

\* C19: a call of Update made with zero elapsed time since lastTime leaves
\* every field of the RateCalculator as it was, whatever the byte argument.
C19_ZeroElapsedChangesNothing ==
  [][(calls' = calls + 1 /\ lastCall'.op = "Update" /\ lastCall'.elapsed = 0)
       => calc' = calc]_vars

\* Such a call has been made on an initialized estimator with a byte count
\* above the baseline.
C19_Witness ==
  /\ lastCall.op = "Update"
  /\ lastCall.elapsed = 0
  /\ calc.ewma.initialized
  /\ lastCall.bytes > calc.lastBytes

C21_SetBytesTakesTotals ==
  [][(/\ calls' = calls + 1
      /\ lastCall'.op = "Update"
      /\ lastCall'.elapsed > 0
      /\ nonDecreasing')
       => /\ folded' = lastCall'.bytes
          /\ (lastCall.op = "Update" => lastCall.elapsed > 0)
               => IF lastCall'.bytes > lastCall.bytes
                    THEN /\ rates' = Append(rates, Rat(lastCall'.bytes - lastCall.bytes,
                                                       lastCall'.elapsed))
                         /\ calc'.ewma = EWMAUpdate(calc.ewma, rates'[Len(rates')])
                         /\ Rate(calc') = calc'.ewma.value
                    ELSE /\ rates' = rates
                         /\ calc'.ewma = calc.ewma]_vars

\* Three growing totals have been handed over at positive intervals, the
\* second growing by as much as the first.
C21_Witness ==
  /\ calls = 3
  /\ nonDecreasing
  /\ Len(rates) = 3
  /\ folded = 300
  /\ lastCall.bytes = 300

\* C22: for samples that are all the same (a single sample included)
\* CalculateLatency returns a jitter of exactly 0 and, as latency, the value
\* of that sample in milliseconds.
C22_IdenticalSamplesHaveNoJitter ==
  (/\ pingCall = "CalculateLatency"
   /\ pingPc = "returned"
   /\ latencies # <<>>
   /\ \A i \in 1..Len(latencies) : latencies[i] = latencies[1])
    => /\ pingRet.result[1].Jitter = FZero
       /\ pingRet.result[1].Latency = FQuotient(latencies[1], TicksPerMs, 0)

\* C23: SortServersByDistance leaves the slice in ascending order of
\* Distance, holding exactly the servers it was given, and servers equally
\* far keep the order they came in.
C23_SortIsStableAscendingPermutation ==
  rpc = "sorted" =>
    /\ \A i \in 1..(Len(servers) - 1) : servers[i].dist <= servers[i + 1].dist
    /\ Len(servers) = Len(fetched)
    /\ \A i \in 1..Len(fetched) :
         Cardinality({j \in 1..Len(servers) : servers[j] = fetched[i]}) = 1
    /\ \A i, j \in 1..Len(servers) :
         (i < j /\ servers[i].dist = servers[j].dist) => servers[i].id < servers[j].id

\* A slice given out of order, with two servers equally far in it, has been
\* sorted.
C23_Witness ==
  /\ rpc = "sorted"
  /\ servers # fetched
  /\ \E i, j \in 1..Len(fetched) : i < j /\ fetched[i].dist = fetched[j].dist

(* ====================================================================== *)
(*                 More properties of the transfer tests                  *)
(* ====================================================================== *)

\* C25: against a server no request to which can succeed, and with the
\* caller's context not cancelled, RunSimpleDownloadTest and
\* RunSimpleUploadTest return an error.
C25_UnreachableServerIsAnError ==
  \A k \in Kinds :
    (xpc[k] = "returned" /\ serverMode = "unreachable" /\ ~ctxDone)
      => xret[k].err # "nil"

\* C26: whenever a worker hands a byte count to the estimator a positive
\* time after the estimator's last observation (a download chunk of n > 0
\* bytes, or uploadSize after a successful upload), the estimator takes in
\* the rate of exactly that count over the elapsed time, whatever was handed
\* to it before.
C26_EveryCountIsTakenInWhole ==
  [][\A k \in Kinds, w \in Workers :
        (/\ wpc[k][w] # "add"
         /\ wpc'[k][w] = "add"
         /\ now > rateCalc[k].lastTime)
          => rateCalc'[k].ewma =
               EWMAUpdate(rateCalc[k].ewma,
                          Rat(wn'[k][w], now - rateCalc[k].lastTime))]_vars

\* C27: no addition to the running total is lost: once every worker of a
\* test has exited, totalBytes is the sum of the sizes of all chunks read
\* (download), or uploadSize times the number of uploads answered with 200
\* (upload).
C27_NoAdditionIsLost ==
  \A k \in Kinds :
    (\A w \in Workers : wpc[k][w] = "exited") => totalBytes[k] = handed[k]

\* Both workers of a test added to the total, and all have exited.
C27_Witness ==
  \E k \in Kinds :
    /\ \A w \in Workers : wpc[k][w] = "exited"
    /\ handed[k] >= NumThreads * UploadSize
    /\ progress[k] # <<>>
    /\ \E i \in 1..Len(progress[k]) : progress[k][i].BytesTotal = handed[k]

\* C28: a worker that builds a progress snapshot reads the running total
\* and the estimator's rate while it holds the mutex the writes are made
\* under, so that no other worker is between its update of the rate and its
\* update of the total at that moment.
C28_SnapshotIsReadUnderTheMutex ==
  [][\A k \in Kinds, w \in Workers :
        (wpc[k][w] = "snap" /\ wpc'[k][w] = "send") => mu[k] = w]_vars

\* C29: while the test deadline has not fired and the context is not
\* cancelled, no download worker is blocked on delivering its progress
\* snapshot: a worker that has a snapshot to send finds room in the progress
\* channel, also when nobody reads the channel before Run has returned.
C29_SendNeverBlocksBeforeTheDeadline ==
  \A w \in Workers :
    (wpc["download"][w] = "send" /\ ~SendMayGiveUp("download"))
      => Len(progress["download"]) < ProgressCap

\* C30: the Bytes that RunSimpleDownloadTest returns, when its context was
\* not cancelled, is the running total the workers had counted when Run
\* returned.
C30_BytesIsTheTotalCounted ==
  (xpc["download"] = "returned" /\ ~ctxDone)
    => xret["download"].Bytes = totalBytes["download"]

(* ====================================================================== *)
(*                    Properties of a successful run                      *)
(* ====================================================================== *)

C33_DoneContextWinsTheSelect ==
  [][\A k \in Kinds :
        (xpc[k] = "select" /\ ctxDone /\ xpc'[k] # "select")
          => xpc'[k] = "drainCtx"]_vars

\* C34: Run closes the progress channel once, and only after every worker
\* has exited: the channel goes from open to closed in a step before which
\* all workers have exited, a closed channel stays closed, all workers of a
\* closed channel have exited, and nothing is sent on a closed channel.
C34_ClosedOnceAfterTheWorkers ==
  [][\A k \in Kinds :
        /\ (~closed[k] /\ closed'[k]) => \A w \in Workers : wpc[k][w] = "exited"
        /\ closed[k] => closed'[k]
        /\ closed'[k] => \A w \in Workers : wpc'[k][w] = "exited"
        /\ closed[k] => Len(progress'[k]) <= Len(progress[k])]_vars

\* A channel on which both workers may have sent is closed with a snapshot
\* in it.
C34_Witness ==
  \E k \in Kinds :
    /\ closed[k]
    /\ progress[k] # <<>>
    /\ handed[k] >= NumThreads * UploadSize

\* C35: a download or upload test that was called returns in the end,
\* whichever branch its select takes, and the goroutine that delivers Run's
\* result always finds room in errChan.
C35_TheTestReturns ==
  /\ \A k \in Kinds : (xpc[k] = "start") ~> (xpc[k] = "returned")
  /\ [](\A k \in Kinds : runPc[k] = "closed" => Len(errChan[k]) < 1)

\* A test has returned by the context's branch after draining a channel
\* that Run closed.
C35_Witness ==
  \E k \in Kinds :
    /\ xpc[k] = "returned"
    /\ xret[k].err = "ctx"
    /\ xret[k].Bytes > 0
    /\ closed[k]

C31_SnapshotsArriveInOrder ==
  \A k \in Kinds :
    /\ \A i, j \in 1..Len(progress[k]) :
         i < j => progress[k][i].BytesTotal <= progress[k][j].BytesTotal
    /\ progress[k] # <<>> => xret[k].Bytes <= Head(progress[k]).BytesTotal

(* ====================================================================== *)
(*                      More properties of Runner.Run                     *)
(* ====================================================================== *)

\* C32: Run never indexes an empty candidate list: it never ends in an
\* out-of-range access, and a Run without a configured server ID that has
\* ended on an empty directory has returned an error.
C32_EmptyListEndsInAnError ==
  /\ rpc # "panicked"
  /\ (rpc = "returned" /\ serverID = 0 /\ fetched = <<>>) => runRet.err # "nil"

(* ====================================================================== *)
(*                 Termination of the latency probes                      *)
(* ====================================================================== *)

\* C36: PingTest.Run and pingServers return in the end, cancelled or not,
\* and when they have returned every goroutine they spawned has finished and
\* no semaphore slot is held.
C36_ProbesEndBeforeTheReturn ==
  /\ (pingCall = "RunPingTest" /\ pingPc = "spawn") ~> (pingPc = "ran")
  /\ (pingCall = "pingServers" /\ selPc = "enter") ~> (selPc = "returned")
  /\ []((pingCall = "RunPingTest" /\ pingPc \in {"ran", "returned"})
          => (PingHeld = 0 /\ \A i \in 1..pingSpawned : ppc[i] = "done"))
  /\ []((pingCall = "pingServers" /\ selPc = "returned")
          => (SemHeld = 0 /\ \A i \in 1..spawned : gpc[i] = "done"))

\* PingTest.Run has returned after all its pings, with a sample, on a
\* context cancelled part-way.
C36_Witness ==
  /\ pingCall = "RunPingTest"
  /\ pingPc = "ran"
  /\ ctxDone
  /\ pingSpawned = numPings
  /\ pok > 0
  /\ pok < numPings

(* ====================================================================== *)
(*                 More properties of the rate estimator                  *)
(* ====================================================================== *)

\* C38: an Update whose byte delta is zero or negative changes neither the
\* smoothed estimate nor the current rate, and gives the estimator no
\* sample.
C38_NoProgressIsNoSample ==
  [][(calls' = calls + 1 /\ lastCall'.op = "Update"
        /\ lastCall'.bytes <= calc.lastBytes)
       => /\ calc'.ewma = calc.ewma
          /\ calc'.currentRate = calc.currentRate
          /\ Rate(calc') = Rate(calc)
          /\ rates' = rates
          /\ estimates' = estimates]_vars

\* After a first observation that gave a rate, a second one, made later,
\* reported fewer bytes.
C38_Witness ==
  /\ calls = 2
  /\ lastCall.op = "Update"
  /\ lastCall.elapsed > 0
  /\ ~nonDecreasing
  /\ Len(rates) = 1
  /\ calc.currentRate # Rat(0, 1)

(* ====================================================================== *)
(*                   Properties of the server distances                   *)
(* ====================================================================== *)

\* C39: CalculateServerDistances leaves every server in its place, sets
\* Distance to 0 for each server whose latitude or longitude does not
\* parse, and sets the distance from the user for every other server,
\* wherever in the list the unparsable entries are.
C39_BadCoordinatesGiveZero ==
  rpc = "measured"
    => /\ Len(servers) = Len(fetched)
       /\ \A i \in 1..Len(fetched) :
            /\ servers[i].Lat = fetched[i].Lat
            /\ servers[i].Lon = fetched[i].Lon
            /\ servers[i].Distance =
                 IF ParseFloat(fetched[i].Lat).err \/ ParseFloat(fetched[i].Lon).err
                   THEN 0
                   ELSE CalculateDistance(userLat, userLon,
                                          ParseFloat(fetched[i].Lat).val,
                                          ParseFloat(fetched[i].Lon).val)

\* A server whose latitude does not parse, and which carried a distance
\* from before, is followed by a server that lies away from the user.
C39_Witness ==
  /\ rpc = "measured"
  /\ Len(fetched) = MaxCoordServers
  /\ ParseFloat(fetched[1].Lat).err
  /\ fetched[1].Distance > 0
  /\ servers[1].Distance = 0
  /\ servers[MaxCoordServers].Distance > 0

====
